---- MODULE Spec2Model ----
(***************************************************************************)
(* WeightWise: the weight-tracking app (server/routes.ts + its storage     *)
(* class) and the local-business app (routes + storage of part_001) as     *)
(* state machines over their database tables.  One action per HTTP route,  *)
(* the isAuthenticated middleware included; `req` and `resp` hold the      *)
(* request last served and the answer it got.                              *)
(***************************************************************************)
EXTENDS Integers, Sequences, FiniteSets, TLC

VARIABLES
  weightEntries,      \* weight_entries table: set of rows
  weightEntrySeq,     \* last value of the weight_entries id serial
  activityLogs,       \* activity_logs table: set of rows
  activityLogSeq,     \* last value of the activity_logs id serial
  googleTokens,       \* user ids that have Google tokens stored
  businessProfiles,   \* business_profiles table
  businessProfileSeq, \* last value of the business_profiles id serial
  customerPreferences,\* customer_preferences table
  customerPrefSeq,    \* last value of the customer_preferences id serial
  recommendations,    \* recommendations table
  recommendationSeq,  \* last value of the recommendations id serial
  users,              \* users table: one row per provider subject id
  inflight,           \* handlers suspended between two storage calls
  businessReviews,    \* business_reviews table
  businessReviewSeq,  \* last value of the business_reviews id serial
  goStore,            \* users map of the Go service's InMemoryUserStore
  subscribers,        \* subscribers table of the landing site, in insert order
  req,                \* the request last served
  resp                \* the response it got

weightVars == <<weightEntries, weightEntrySeq, googleTokens>>
bizVars == <<businessProfiles, businessProfileSeq, customerPreferences,
             customerPrefSeq, recommendations, recommendationSeq>>
logVars == <<activityLogs, activityLogSeq>>
auxVars == <<businessReviews, businessReviewSeq, goStore, subscribers>>
vars == <<weightVars, bizVars, logVars, users, inflight, auxVars, req, resp>>

----------------------------------------------------------------------------
\* Bounds of the model

\* serial ids handed out by weight_entries
MaxEntries == 2
\* serial ids handed out by activity_logs
MaxLogs == 3

\* provider subject ids of the users that hold sessions
UserIds == {"u1", "u2"}
\* a request that carries no authenticated session
NoSession == "anonymous"
Callers == UserIds \cup {NoSession}

\* a field the JSON body does not carry
Absent == "<absent>"
\* a field whose JSON value is not a string
NotAString == "<number>"

----------------------------------------------------------------------------
\* Tables outside the two web apps, as they are before any request

\* NewInMemoryUserStore: the users map of the Go service
NewInMemoryUserStore ==
  [id \in {"user1"} |->
     [ID |-> "user1", Email |-> "user1@example.com", FullName |-> "Test User"]]

\* no review stored, the Go store as constructed, no subscriber
AuxInit ==
  /\ businessReviews = {}
  /\ businessReviewSeq = 0
  /\ goStore = NewInMemoryUserStore
  /\ subscribers = <<>>

----------------------------------------------------------------------------
\* parseInt on a path or query parameter, given as a sequence of characters

DigitChars == <<"0", "1", "2", "3", "4", "5", "6", "7", "8", "9">>
IsDigit(c) == \E i \in 1..10 : DigitChars[i] = c
DigitVal(c) == (CHOOSE i \in 1..10 : DigitChars[i] = c) - 1

\* the number of leading digits of s from position i on
RECURSIVE DigitRun(_, _)
DigitRun(s, i) ==
  IF i > Len(s) \/ ~IsDigit(s[i]) THEN 0 ELSE 1 + DigitRun(s, i + 1)

\* the value of the n digits of s that start at position i
RECURSIVE DigitsValue(_, _, _)
DigitsValue(s, i, n) ==
  IF n = 0 THEN 0
  ELSE DigitsValue(s, i, n - 1) * 10 + DigitVal(s[i + n - 1])

\* parseInt: an optional sign, then the longest run of digits; NaN without one
parseInt(s) ==
  LET neg == Len(s) > 0 /\ s[1] = "-"
      start == IF neg THEN 2 ELSE 1
      n == DigitRun(s, start)
  IN IF n = 0 THEN [nan |-> TRUE, val |-> 0]
     ELSE [nan |-> FALSE,
           val |-> IF neg THEN 0 - DigitsValue(s, start, n)
                   ELSE DigitsValue(s, start, n)]

----------------------------------------------------------------------------
\* Sequences of rows

\* the first n elements of seq
Take(seq, n) == SubSeq(seq, 1, IF n < Len(seq) THEN n ELSE Len(seq))

\* the rows of S, highest id first
RECURSIVE SortDescById(_)
SortDescById(S) ==
  IF S = {} THEN <<>>
  ELSE LET top == CHOOSE r \in S : \A o \in S : o.id <= r.id
       IN <<top>> \o SortDescById(S \ {top})

Range(seq) == {seq[i] : i \in 1..Len(seq)}

----------------------------------------------------------------------------
\* The middleware and the shape of requests and responses

isAuthenticated(auth) == auth # NoSession

NoId == [nan |-> TRUE, val |-> 0]
NoBody == [none |-> TRUE]
Query(limit, code, state, search, category) ==
  [limit |-> limit, code |-> code, state |-> state, search |-> search,
   category |-> category]
NoQuery == Query(<<>>, "", "", <<>>, "")
LimitQuery(limit) == Query(limit, "", "", <<>>, "")

Request(route, auth, id, body, query) ==
  [route |-> route, auth |-> auth, id |-> id, body |-> body, query |-> query]

Response(status, rows, message) ==
  [status |-> status, rows |-> rows, message |-> message]

Unauthorized == Response(401, <<>>, "Unauthorized")

----------------------------------------------------------------------------
\* Weight app: the weight_entries schema and its insert validation

\* weight strings a body may carry
Weights == {"150.5"}
Units == {"lbs"}
EntryTypes == {"manual", "photo"}

\* weightEntryInsertSchema.parse: the validated data, or no data when it throws
weightEntryInsertSchema(data) ==
  IF /\ data.userId \in UserIds
     /\ data.weight \notin {Absent, NotAString}
     /\ data.unit \notin {Absent, NotAString}
     /\ data.entryType # NotAString
     /\ data.photoPath # NotAString
  THEN {data}
  ELSE {}

\* the row the table stores for an insert: serial id, column defaults applied
WeightEntryRow(id, entry) ==
  [id |-> id,
   userId |-> entry.userId,
   weight |-> entry.weight,
   unit |-> entry.unit,
   entryType |-> IF entry.entryType = Absent THEN "manual" ELSE entry.entryType,
   photoPath |-> entry.photoPath]

----------------------------------------------------------------------------
\* Weight app: DatabaseStorage

createWeightEntry(entry) == WeightEntryRow(weightEntrySeq + 1, entry)

\* getWeightEntries without the user_id condition
getWeightEntries_Unscoped(userId, limit) ==
  Take(SortDescById(weightEntries), limit)

getWeightEntries(userId, limit) ==
  Take(SortDescById({e \in weightEntries : e.userId = userId}), limit)

getWeightEntry(id, userId) ==
  {e \in weightEntries : e.id = id /\ e.userId = userId}

\* the rows deleteWeightEntry removes (rowCount is their number)
deleteWeightEntry(id, userId) ==
  {e \in weightEntries : e.id = id /\ e.userId = userId}

\* createActivityLog storing a fixed action tag instead of the one given
createActivityLog_FixedAction(log) ==
  [id |-> activityLogSeq + 1, userId |-> log.userId, action |-> "activity",
   metadata |-> log.metadata]

createActivityLog(log) ==
  [id |-> activityLogSeq + 1, userId |-> log.userId, action |-> log.action,
   metadata |-> log.metadata]

\* getActivityLogs returning the oldest rows first
getActivityLogs_OldestFirst(userId, limit) ==
  LET newest == SortDescById({l \in activityLogs : l.userId = userId})
  IN Take([i \in 1..Len(newest) |-> newest[Len(newest) + 1 - i]], limit)

getActivityLogs(userId, limit) ==
  Take(SortDescById({l \in activityLogs : l.userId = userId}), limit)

----------------------------------------------------------------------------
\* Weight app: upload filter and mock detector

\* upload limit in bytes
fileSizeLimit == 10 * 1024 * 1024

NoFile == [present |-> FALSE, type |-> "", size |-> 0, filename |-> ""]
Files ==
  {NoFile} \cup
  {[present |-> TRUE, type |-> t, size |-> z, filename |-> "f1"] :
     t \in {"image", "text"}, z \in {1024, fileSizeLimit + 1}}

\* the upload middleware without its fileFilter
upload_AnyType(file) ==
  ~file.present \/ file.size <= fileSizeLimit

\* an upload middleware that rejected a request without file part
upload_RequireFile(file) ==
  file.present /\ file.type = "image" /\ file.size <= fileSizeLimit

\* multer's fileFilter and size limit: TRUE when the upload is passed on
upload(file) ==
  ~file.present \/ (file.type = "image" /\ file.size <= fileSizeLimit)

\* Math.random() * 150 + 100, in hundredths: samples of [100.00, 250.00)
OcrSamples == {17554, 24996}

\* a number of tenths printed the way Number.prototype.toString prints it
TenthsToString(t) ==
  IF t % 10 = 0 THEN ToString(t \div 10)
  ELSE ToString(t \div 10) \o "." \o ToString(t % 10)

\* mockOCRProcessing without the offset of 100
mockOCRProcessing_NoOffset(sample) == (sample - 10000 + 5) \div 10

\* mockOCRProcessing: the sample rounded to one decimal, in tenths
mockOCRProcessing(sample) == (sample + 5) \div 10

----------------------------------------------------------------------------
\* Weight app: routes

WeightBodies ==
  [weight : Weights \cup {NotAString},
   unit : Units,
   entryType : {Absent, "photo"},
   userId : {Absent, "u2"},
   photoPath : {Absent}]

\* numerals a client puts in the :id segment
IdStrings == {<<"1">>, <<"2">>, <<"0", "3">>}
\* values of the limit query parameter (empty: not given)
LimitStrings == {<<>>, <<"1">>, <<"2">>}

WeightLimitDefault == 50
LogLimitDefault == 10

\* POST /api/weight-entries
PostWeightEntry(auth, body) ==
  /\ req' = Request("POST /api/weight-entries", auth, NoId, body, NoQuery)
  /\ UNCHANGED <<users, inflight, auxVars>>
  /\ UNCHANGED <<bizVars, googleTokens>>
  /\ IF ~isAuthenticated(auth)
     THEN resp' = Unauthorized /\ UNCHANGED <<weightEntries, weightEntrySeq, logVars>>
     ELSE LET userId == auth
              validated == weightEntryInsertSchema([body EXCEPT !.userId = userId])
          IN IF validated = {}
             THEN /\ resp' = Response(400, <<>>, "ZodError")
                  /\ UNCHANGED <<weightEntries, weightEntrySeq, logVars>>
             ELSE LET validatedData == CHOOSE d \in validated : TRUE
                      weightEntry == createWeightEntry(validatedData)
                  IN /\ weightEntrySeq < MaxEntries
                     /\ activityLogSeq < MaxLogs
                     /\ weightEntries' = weightEntries \cup {weightEntry}
                     /\ weightEntrySeq' = weightEntry.id
                     /\ activityLogs' = activityLogs \cup {createActivityLog(
                          [userId |-> userId, action |-> "weight_entry",
                           metadata |-> [entryId |-> weightEntry.id,
                                         entryType |-> "manual"]])}
                     /\ activityLogSeq' = activityLogSeq + 1
                     /\ resp' = Response(200, <<weightEntry>>, "")

\* GET /api/weight-entries
GetWeightEntries(auth, limitStr) ==
  /\ req' = Request("GET /api/weight-entries", auth, NoId, NoBody, LimitQuery(limitStr))
  /\ UNCHANGED <<users, inflight, auxVars>>
  /\ UNCHANGED <<weightVars, bizVars, logVars>>
  /\ IF ~isAuthenticated(auth)
     THEN resp' = Unauthorized
     ELSE LET userId == auth
              limit == IF limitStr # <<>> THEN parseInt(limitStr).val
                       ELSE WeightLimitDefault
          IN resp' = Response(200, getWeightEntries(userId, limit), "")

\* DELETE /api/weight-entries/:id looking the entry up and deleting it by id alone
DeleteWeightEntry_ByIdAlone(auth, idStr) ==
  /\ req' = Request("DELETE /api/weight-entries/:id", auth, parseInt(idStr), NoBody, NoQuery)
  /\ UNCHANGED <<users, inflight, auxVars>>
  /\ UNCHANGED <<bizVars, googleTokens, weightEntrySeq>>
  /\ IF ~isAuthenticated(auth)
     THEN resp' = Unauthorized /\ UNCHANGED <<weightEntries, logVars>>
     ELSE LET userId == auth
              entryId == parseInt(idStr).val
              entry == {e \in weightEntries : e.id = entryId}
          IN IF entry = {}
             THEN /\ resp' = Response(404, <<>>, "Weight entry not found")
                  /\ UNCHANGED <<weightEntries, logVars>>
             ELSE LET e == CHOOSE x \in entry : TRUE
                  IN /\ activityLogSeq < MaxLogs
                     /\ weightEntries' = weightEntries \ entry
                     /\ activityLogs' = activityLogs \cup {createActivityLog(
                          [userId |-> userId, action |-> "weight_delete",
                           metadata |-> [entryId |-> entryId,
                                         deletedWeight |-> e.weight,
                                         deletedUnit |-> e.unit]])}
                     /\ activityLogSeq' = activityLogSeq + 1
                     /\ resp' = Response(200, <<>>, "Weight entry deleted successfully")

\* DELETE /api/weight-entries/:id that also removes the log rows of the entry
DeleteWeightEntry_CascadeLogs(auth, idStr) ==
  /\ req' = Request("DELETE /api/weight-entries/:id", auth, parseInt(idStr), NoBody, NoQuery)
  /\ UNCHANGED <<users, inflight, auxVars>>
  /\ UNCHANGED <<bizVars, googleTokens, weightEntrySeq>>
  /\ IF ~isAuthenticated(auth)
     THEN resp' = Unauthorized /\ UNCHANGED <<weightEntries, logVars>>
     ELSE LET userId == auth
              entryId == parseInt(idStr).val
              entry == getWeightEntry(entryId, userId)
          IN IF entry = {}
             THEN /\ resp' = Response(404, <<>>, "Weight entry not found")
                  /\ UNCHANGED <<weightEntries, logVars>>
             ELSE LET e == CHOOSE x \in entry : TRUE
                  IN /\ activityLogSeq < MaxLogs
                     /\ weightEntries' = weightEntries \ entry
                     /\ activityLogs' =
                          {l \in activityLogs : l.metadata.entryId # entryId}
                          \cup {createActivityLog(
                          [userId |-> userId, action |-> "weight_delete",
                           metadata |-> [entryId |-> entryId,
                                         deletedWeight |-> e.weight,
                                         deletedUnit |-> e.unit]])}
                     /\ activityLogSeq' = activityLogSeq + 1
                     /\ resp' = Response(200, <<>>, "Weight entry deleted successfully")

\* DELETE /api/weight-entries/:id
DeleteWeightEntry(auth, idStr) ==
  /\ req' = Request("DELETE /api/weight-entries/:id", auth, parseInt(idStr), NoBody, NoQuery)
  /\ UNCHANGED <<users, inflight, auxVars>>
  /\ UNCHANGED <<bizVars, googleTokens, weightEntrySeq>>
  /\ IF ~isAuthenticated(auth)
     THEN resp' = Unauthorized /\ UNCHANGED <<weightEntries, logVars>>
     ELSE LET userId == auth
              entryId == parseInt(idStr).val
              entry == getWeightEntry(entryId, userId)
              deleted == deleteWeightEntry(entryId, userId)
          IN IF entry = {}
             THEN /\ resp' = Response(404, <<>>, "Weight entry not found")
                  /\ UNCHANGED <<weightEntries, logVars>>
             ELSE IF deleted # {}
             THEN LET e == CHOOSE x \in entry : TRUE
                  IN /\ activityLogSeq < MaxLogs
                     /\ weightEntries' = weightEntries \ deleted
                     /\ activityLogs' = activityLogs \cup {createActivityLog(
                          [userId |-> userId, action |-> "weight_delete",
                           metadata |-> [entryId |-> entryId,
                                         deletedWeight |-> e.weight,
                                         deletedUnit |-> e.unit]])}
                     /\ activityLogSeq' = activityLogSeq + 1
                     /\ resp' = Response(200, <<>>, "Weight entry deleted successfully")
             ELSE /\ resp' = Response(404, <<>>, "Weight entry not found")
                  /\ UNCHANGED <<weightEntries, logVars>>

\* POST /api/upload-weight-photo
UploadWeightPhoto(auth, file, sample) ==
  /\ req' = Request("POST /api/upload-weight-photo", auth, NoId, [file |-> file], NoQuery)
  /\ UNCHANGED <<users, inflight, auxVars>>
  /\ UNCHANGED <<bizVars, googleTokens>>
  /\ IF ~isAuthenticated(auth)
     THEN resp' = Unauthorized /\ UNCHANGED <<weightEntries, weightEntrySeq, logVars>>
     ELSE IF ~upload(file)
     THEN /\ resp' = Response(500, <<>>, "upload rejected")
          /\ UNCHANGED <<weightEntries, weightEntrySeq, logVars>>
     ELSE IF ~file.present
     THEN /\ resp' = Response(400, <<>>, "No file uploaded")
          /\ UNCHANGED <<weightEntries, weightEntrySeq, logVars>>
     ELSE LET userId == auth
              detectedWeight == mockOCRProcessing(sample)
              photoPath == "/uploads/" \o file.filename
              weightEntry == createWeightEntry(
                [userId |-> userId, weight |-> TenthsToString(detectedWeight),
                 unit |-> "lbs", entryType |-> "photo", photoPath |-> photoPath])
          IN /\ weightEntrySeq < MaxEntries
             /\ activityLogSeq < MaxLogs
             /\ weightEntries' = weightEntries \cup {weightEntry}
             /\ weightEntrySeq' = weightEntry.id
             /\ activityLogs' = activityLogs \cup {createActivityLog(
                  [userId |-> userId, action |-> "photo_upload",
                   metadata |-> [entryId |-> weightEntry.id,
                                 photoPath |-> photoPath,
                                 detectedWeight |-> detectedWeight,
                                 entryType |-> "photo"]])}
             /\ activityLogSeq' = activityLogSeq + 1
             /\ resp' = Response(200, <<weightEntry>>,
                                 "Photo uploaded and weight detected successfully")
                          @@ [detectedWeight |-> detectedWeight, photoPath |-> photoPath]

\* GET /api/activity-logs
GetActivityLogs(auth, limitStr) ==
  /\ req' = Request("GET /api/activity-logs", auth, NoId, NoBody, LimitQuery(limitStr))
  /\ UNCHANGED <<users, inflight, auxVars>>
  /\ UNCHANGED <<weightVars, bizVars, logVars>>
  /\ IF ~isAuthenticated(auth)
     THEN resp' = Unauthorized
     ELSE LET userId == auth
              limit == IF limitStr # <<>> THEN parseInt(limitStr).val
                       ELSE LogLimitDefault
          IN resp' = Response(200, getActivityLogs(userId, limit), "")

----------------------------------------------------------------------------
\* Weight app: Google Photos routes

\* storage.storeGoogleTokens / getGoogleTokens / deleteGoogleTokens
storeGoogleTokens(userId) == googleTokens \cup {userId}
getGoogleTokens(userId) == googleTokens \cap {userId}
deleteGoogleTokens(userId) == googleTokens \ {userId}

\* authorization codes a client may present; getToken accepts the good one
AuthCodes == {"", "good", "bad"}
getToken(code) == code = "good"

\* GET /api/auth/google
GoogleAuth(auth) ==
  /\ req' = Request("GET /api/auth/google", auth, NoId, NoBody, NoQuery)
  /\ UNCHANGED <<users, inflight, auxVars>>
  /\ UNCHANGED <<weightVars, bizVars, logVars>>
  /\ IF ~isAuthenticated(auth)
     THEN resp' = Unauthorized
     ELSE resp' = Response(200, <<>>, "authUrl")

\* GET /api/auth/google/callback
GoogleCallback(auth, code, state) ==
  /\ req' = Request("GET /api/auth/google/callback", auth, NoId, NoBody,
                    Query(<<>>, code, state, <<>>, ""))
  /\ UNCHANGED <<users, inflight, auxVars>>
  /\ UNCHANGED <<weightEntries, weightEntrySeq, bizVars, logVars>>
  /\ LET userId == state
     IN IF code = "" \/ userId = ""
        THEN /\ resp' = Response(400, <<>>, "Missing authorization code or user ID")
             /\ UNCHANGED googleTokens
        ELSE IF ~getToken(code)
        THEN /\ resp' = Response(500, <<>>, "Failed to complete Google authentication")
             /\ UNCHANGED googleTokens
        ELSE /\ googleTokens' = storeGoogleTokens(userId)
             /\ resp' = Response(302, <<>>, "/?tab=photos")

\* GET /api/google-photos
GooglePhotos(auth, development) ==
  /\ req' = Request("GET /api/google-photos", auth, NoId, NoBody, NoQuery)
  /\ UNCHANGED <<users, inflight, auxVars>>
  /\ UNCHANGED <<weightVars, bizVars, logVars>>
  /\ IF ~isAuthenticated(auth)
     THEN resp' = Unauthorized
     ELSE LET userId == auth
          IN IF development
             THEN resp' = Response(200, <<>>, "mock photos, needsAuth")
             ELSE IF getGoogleTokens(userId) = {}
             THEN resp' = Response(200, <<>>, "no photos, needsAuth")
             ELSE resp' = Response(200, <<>>, "photos, connected")

\* DELETE /api/google-photos/disconnect
GoogleDisconnect(auth) ==
  /\ req' = Request("DELETE /api/google-photos/disconnect", auth, NoId, NoBody, NoQuery)
  /\ UNCHANGED <<users, inflight, auxVars>>
  /\ UNCHANGED <<weightEntries, weightEntrySeq, bizVars, logVars>>
  /\ IF ~isAuthenticated(auth)
     THEN resp' = Unauthorized /\ UNCHANGED googleTokens
     ELSE /\ googleTokens' = deleteGoogleTokens(auth)
          /\ resp' = Response(200, <<>>, "Google Photos disconnected successfully")

----------------------------------------------------------------------------
\* Weight app: the state machine

Init ==
  /\ weightEntries = {}
  /\ weightEntrySeq = 0
  /\ activityLogs = {}
  /\ activityLogSeq = 0
  /\ googleTokens = {}
  /\ businessProfiles = {}
  /\ businessProfileSeq = 0
  /\ customerPreferences = {}
  /\ customerPrefSeq = 0
  /\ recommendations = {}
  /\ recommendationSeq = 0
  /\ users = {}
  /\ inflight = <<>>
  /\ AuxInit
  /\ req = Request("", NoSession, NoId, NoBody, NoQuery)
  /\ resp = Response(0, <<>>, "")

Next ==
  \/ \E auth \in Callers, body \in WeightBodies : PostWeightEntry(auth, body)
  \/ \E auth \in Callers, limitStr \in LimitStrings : GetWeightEntries(auth, limitStr)
  \/ \E auth \in Callers, idStr \in IdStrings : DeleteWeightEntry(auth, idStr)
  \/ \E auth \in Callers, file \in Files, sample \in OcrSamples :
       UploadWeightPhoto(auth, file, sample)
  \/ \E auth \in Callers, limitStr \in LimitStrings : GetActivityLogs(auth, limitStr)

Spec == Init /\ [][Next]_vars

\* the variant of the app that also registers the Google Photos routes
NextPhotos ==
  \/ Next
  \/ \E auth \in Callers : GoogleAuth(auth)
  \/ \E auth \in Callers, code \in AuthCodes, state \in UserIds \cup {""} :
       GoogleCallback(auth, code, state)
  \/ \E auth \in Callers, development \in BOOLEAN : GooglePhotos(auth, development)
  \/ \E auth \in Callers : GoogleDisconnect(auth)

SpecPhotos == Init /\ [][NextPhotos]_vars

----------------------------------------------------------------------------
\* Business app: schema and insert validation (shared/schema.ts)

\* serial ids handed out by business_profiles
MaxProfiles == 2
\* serial ids handed out by customer_preferences
MaxPrefs == 2

\* business names, as sequences of characters
BusinessNames == {<<"a", "b">>}
\* a businessName the body does not carry, and one that is not a string
NoName == <<Absent>>
NotAName == <<NotAString>>

\* businessProfileInsertSchema.parse: the validated data, or none when it throws
businessProfileInsertSchema(data) ==
  IF /\ data.userId \in UserIds
     /\ data.businessName \notin {NoName, NotAName}
     /\ data.category # NotAString
     /\ data.isActive # NotAString
  THEN {data}
  ELSE {}

\* businessProfileInsertSchema.partial().parse: every field optional
businessProfilePartialSchema(data) ==
  IF /\ data.userId # NotAString
     /\ data.businessName # NotAName
     /\ data.category # NotAString
     /\ data.isActive # NotAString
  THEN {data}
  ELSE {}

\* customerPreferencesInsertSchema.parse
customerPreferencesInsertSchema(data) ==
  IF data.userId \in UserIds /\ data.budgetRange # NotAString
  THEN {data}
  ELSE {}

\* customerPreferencesInsertSchema.partial().parse
customerPreferencesPartialSchema(data) ==
  IF data.userId # NotAString /\ data.budgetRange # NotAString
  THEN {data}
  ELSE {}

\* the business_profiles row of an insert: serial id, is_active defaults to true
BusinessProfileRow(id, profile) ==
  [id |-> id,
   userId |-> profile.userId,
   businessName |-> profile.businessName,
   category |-> profile.category,
   isActive |-> IF profile.isActive = Absent THEN TRUE
                ELSE profile.isActive = "true"]

\* the row after UPDATE ... SET of the fields the data carries
BusinessProfileSet(row, profile) ==
  [id |-> row.id,
   userId |-> IF profile.userId = Absent THEN row.userId ELSE profile.userId,
   businessName |-> IF profile.businessName = NoName THEN row.businessName
                    ELSE profile.businessName,
   category |-> IF profile.category = Absent THEN row.category
                ELSE profile.category,
   isActive |-> IF profile.isActive = Absent THEN row.isActive
                ELSE profile.isActive = "true"]

CustomerPreferencesRow(id, preferences) ==
  [id |-> id, userId |-> preferences.userId,
   budgetRange |-> preferences.budgetRange]

CustomerPreferencesSet(row, preferences) ==
  [id |-> row.id,
   userId |-> IF preferences.userId = Absent THEN row.userId
              ELSE preferences.userId,
   budgetRange |-> IF preferences.budgetRange = Absent THEN row.budgetRange
                   ELSE preferences.budgetRange]

----------------------------------------------------------------------------
\* Business app: DatabaseStorage, business profiles and preferences

createBusinessProfile(profile) == BusinessProfileRow(businessProfileSeq + 1, profile)

getBusinessProfile(id) == {b \in businessProfiles : b.id = id}

getBusinessProfileByUserId(userId) ==
  {b \in businessProfiles : b.userId = userId}

\* updateBusinessProfile without the user_id condition
updateBusinessProfile_ByIdAlone(id, userId) ==
  {b \in businessProfiles : b.id = id}

\* the rows updateBusinessProfile's WHERE clause selects
updateBusinessProfile(id, userId) ==
  {b \in businessProfiles : b.id = id /\ b.userId = userId}

\* s occurs in t as a substring
Contains(t, s) ==
  \E i \in 1..(Len(t) + 1) :
    i + Len(s) - 1 <= Len(t) /\ SubSeq(t, i, i + Len(s) - 1) = s

\* a before b in the order of business names (lexicographic, by character)
RECURSIVE NameLeq(_, _)
NameLeq(a, b) ==
  IF a = <<>> THEN TRUE
  ELSE IF b = <<>> THEN FALSE
  ELSE IF a[1] = b[1] THEN NameLeq(Tail(a), Tail(b))
  ELSE \E i, j \in 1..26 :
         /\ i < j
         /\ <<"a","b","c","d","e","f","g","h","i","j","k","l","m","n","o",
              "p","q","r","s","t","u","v","w","x","y","z">>[i] = a[1]
         /\ <<"a","b","c","d","e","f","g","h","i","j","k","l","m","n","o",
              "p","q","r","s","t","u","v","w","x","y","z">>[j] = b[1]

\* the sequences that list the rows of S by ascending business name
RECURSIVE OrderedByName(_)
OrderedByName(S) ==
  IF S = {} THEN {<<>>}
  ELSE UNION {{<<r>> \o t : t \in OrderedByName(S \ {r})} :
         r \in {x \in S : \A o \in S : NameLeq(x.businessName, o.businessName)}}

\* t LIKE p: % matches any run of characters, _ any one character
RECURSIVE Like(_, _)
Like(t, p) ==
  IF p = <<>> THEN t = <<>>
  ELSE IF p[1] = "%" THEN \/ Like(t, Tail(p))
                          \/ t # <<>> /\ Like(Tail(t), p)
  ELSE IF t = <<>> THEN FALSE
  ELSE (p[1] = "_" \/ p[1] = t[1]) /\ Like(Tail(t), Tail(p))

searchBusinesses(query, category) ==
  OrderedByName({b \in businessProfiles :
    /\ b.isActive
    /\ Like(b.businessName, <<"%">> \o query \o <<"%">>)
    /\ (category # "" => b.category = category)})

getAllBusinesses(limit) ==
  Take(SortDescById({b \in businessProfiles : b.isActive}), limit)

createCustomerPreferences(preferences) ==
  CustomerPreferencesRow(customerPrefSeq + 1, preferences)

getCustomerPreferences(userId) ==
  {c \in customerPreferences : c.userId = userId}

\* updateCustomerPreferences without its WHERE clause
updateCustomerPreferences_AllUsers(userId) == customerPreferences

\* the rows updateCustomerPreferences' WHERE clause selects
updateCustomerPreferences(userId) ==
  {c \in customerPreferences : c.userId = userId}

----------------------------------------------------------------------------
\* Business app: business-profile and customer-preferences routes

ProfileBodies ==
  [businessName : BusinessNames \cup {NoName, NotAName},
   category : {Absent},
   isActive : {Absent, "false"},
   userId : {Absent, "u2"}]

PrefBodies ==
  [budgetRange : {"low", Absent, NotAString},
   userId : {Absent, "u2"}]

\* numerals a client puts in the :id segment of the business routes
BizIdStrings == {<<"1">>, <<"2", "x">>}
\* values of the search and category query parameters (empty: not given)
SearchStrings == {<<>>, <<"b">>, <<"_">>}
CategoryStrings == {"", "food"}
\* values of the limit query parameter of the business app
BizLimitStrings == {<<>>, <<"1">>, <<"x">>}

BusinessLimitDefault == 50

\* parseInt(limit) || dflt
LimitOr(limitStr, dflt) ==
  LET n == parseInt(limitStr)
  IN IF n.nan \/ n.val = 0 THEN dflt ELSE n.val

\* POST /api/business-profile
PostBusinessProfile(auth, body) ==
  /\ req' = Request("POST /api/business-profile", auth, NoId, body, NoQuery)
  /\ UNCHANGED <<users, inflight, auxVars>>
  /\ UNCHANGED <<weightVars, customerPreferences, customerPrefSeq,
                 recommendations, recommendationSeq>>
  /\ IF ~isAuthenticated(auth)
     THEN resp' = Unauthorized /\ UNCHANGED <<businessProfiles, businessProfileSeq, logVars>>
     ELSE LET userId == auth
              validated == businessProfileInsertSchema([body EXCEPT !.userId = userId])
          IN IF validated = {}
             THEN /\ resp' = Response(400, <<>>, "Invalid business profile data")
                  /\ UNCHANGED <<businessProfiles, businessProfileSeq, logVars>>
             ELSE LET validatedData == CHOOSE d \in validated : TRUE
                      businessProfile == createBusinessProfile(validatedData)
                  IN /\ businessProfileSeq < MaxProfiles
                     /\ activityLogSeq < MaxLogs
                     /\ businessProfiles' = businessProfiles \cup {businessProfile}
                     /\ businessProfileSeq' = businessProfile.id
                     /\ activityLogs' = activityLogs \cup {createActivityLog(
                          [userId |-> userId, action |-> "create_business_profile",
                           metadata |-> [businessId |-> businessProfile.id,
                                         category |-> businessProfile.category]])}
                     /\ activityLogSeq' = activityLogSeq + 1
                     /\ resp' = Response(200, <<businessProfile>>, "")

\* GET /api/business-profile
GetBusinessProfile(auth) ==
  /\ req' = Request("GET /api/business-profile", auth, NoId, NoBody, NoQuery)
  /\ UNCHANGED <<users, inflight, auxVars>>
  /\ UNCHANGED <<weightVars, bizVars, logVars>>
  /\ IF ~isAuthenticated(auth)
     THEN resp' = Unauthorized
     ELSE LET userId == auth
              found == getBusinessProfileByUserId(userId)
          IN IF found = {}
             THEN resp' = Response(200, <<>>, "")
             ELSE \E profile \in found : resp' = Response(200, <<profile>>, "")

\* PUT /api/business-profile/:id
PutBusinessProfile(auth, idStr, body) ==
  /\ req' = Request("PUT /api/business-profile/:id", auth, parseInt(idStr), body, NoQuery)
  /\ UNCHANGED <<users, inflight, auxVars>>
  /\ UNCHANGED <<weightVars, businessProfileSeq, customerPreferences, customerPrefSeq,
                 recommendations, recommendationSeq, logVars>>
  /\ IF ~isAuthenticated(auth)
     THEN resp' = Unauthorized /\ UNCHANGED businessProfiles
     ELSE LET userId == auth
              profileId == parseInt(idStr).val
              validated == businessProfilePartialSchema(body)
              selected == updateBusinessProfile(profileId, userId)
          IN IF validated = {}
             THEN /\ resp' = Response(500, <<>>, "Failed to update business profile")
                  /\ UNCHANGED businessProfiles
             ELSE IF selected = {}
             THEN /\ resp' = Response(404, <<>>, "Business profile not found")
                  /\ UNCHANGED businessProfiles
             ELSE LET validatedData == CHOOSE d \in validated : TRUE
                      updated == {BusinessProfileSet(b, validatedData) : b \in selected}
                  IN /\ businessProfiles' = (businessProfiles \ selected) \cup updated
                     /\ \E updatedProfile \in updated :
                          resp' = Response(200, <<updatedProfile>>, "")

\* GET /api/businesses
GetBusinesses(auth, search, category, limitStr) ==
  /\ req' = Request("GET /api/businesses", auth, NoId, NoBody,
                    Query(limitStr, "", "", search, category))
  /\ UNCHANGED <<users, inflight, auxVars>>
  /\ UNCHANGED <<weightVars, bizVars, logVars>>
  /\ IF search # <<>>
     THEN \E businesses \in searchBusinesses(search, category) :
            resp' = Response(200, businesses, "")
     ELSE resp' = Response(200, getAllBusinesses(LimitOr(limitStr, BusinessLimitDefault)), "")

\* GET /api/businesses/:id
GetBusiness(auth, idStr) ==
  /\ req' = Request("GET /api/businesses/:id", auth, parseInt(idStr), NoBody, NoQuery)
  /\ UNCHANGED <<users, inflight, auxVars>>
  /\ UNCHANGED <<weightVars, bizVars, logVars>>
  /\ LET businessId == parseInt(idStr).val
         found == getBusinessProfile(businessId)
     IN IF found = {}
        THEN resp' = Response(404, <<>>, "Business not found")
        ELSE \E business \in found : resp' = Response(200, <<business>>, "")

\* POST /api/customer-preferences
PostCustomerPreferences(auth, body) ==
  /\ req' = Request("POST /api/customer-preferences", auth, NoId, body, NoQuery)
  /\ UNCHANGED <<users, inflight, auxVars>>
  /\ UNCHANGED <<weightVars, businessProfiles, businessProfileSeq,
                 recommendations, recommendationSeq>>
  /\ IF ~isAuthenticated(auth)
     THEN resp' = Unauthorized /\ UNCHANGED <<customerPreferences, customerPrefSeq, logVars>>
     ELSE LET userId == auth
              validated == customerPreferencesInsertSchema([body EXCEPT !.userId = userId])
          IN IF validated = {}
             THEN /\ resp' = Response(400, <<>>, "Invalid customer preferences data")
                  /\ UNCHANGED <<customerPreferences, customerPrefSeq, logVars>>
             ELSE LET validatedData == CHOOSE d \in validated : TRUE
                      preferences == createCustomerPreferences(validatedData)
                  IN /\ customerPrefSeq < MaxPrefs
                     /\ activityLogSeq < MaxLogs
                     /\ customerPreferences' = customerPreferences \cup {preferences}
                     /\ customerPrefSeq' = preferences.id
                     /\ activityLogs' = activityLogs \cup {createActivityLog(
                          [userId |-> userId, action |-> "update_preferences",
                           metadata |-> [budgetRange |-> preferences.budgetRange]])}
                     /\ activityLogSeq' = activityLogSeq + 1
                     /\ resp' = Response(200, <<preferences>>, "")

\* GET /api/customer-preferences
GetCustomerPreferences(auth) ==
  /\ req' = Request("GET /api/customer-preferences", auth, NoId, NoBody, NoQuery)
  /\ UNCHANGED <<users, inflight, auxVars>>
  /\ UNCHANGED <<weightVars, bizVars, logVars>>
  /\ IF ~isAuthenticated(auth)
     THEN resp' = Unauthorized
     ELSE LET userId == auth
              found == getCustomerPreferences(userId)
          IN IF found = {}
             THEN resp' = Response(200, <<>>, "")
             ELSE \E preferences \in found : resp' = Response(200, <<preferences>>, "")

\* PUT /api/customer-preferences
PutCustomerPreferences(auth, body) ==
  /\ req' = Request("PUT /api/customer-preferences", auth, NoId, body, NoQuery)
  /\ UNCHANGED <<users, inflight, auxVars>>
  /\ UNCHANGED <<weightVars, businessProfiles, businessProfileSeq, customerPrefSeq,
                 recommendations, recommendationSeq>>
  /\ IF ~isAuthenticated(auth)
     THEN resp' = Unauthorized /\ UNCHANGED <<customerPreferences, logVars>>
     ELSE LET userId == auth
              validated == customerPreferencesPartialSchema(body)
              selected == updateCustomerPreferences(userId)
          IN IF validated = {}
             THEN /\ resp' = Response(500, <<>>, "Failed to update customer preferences")
                  /\ UNCHANGED <<customerPreferences, logVars>>
             ELSE IF selected = {}
             THEN /\ resp' = Response(404, <<>>, "Customer preferences not found")
                  /\ UNCHANGED <<customerPreferences, logVars>>
             ELSE LET validatedData == CHOOSE d \in validated : TRUE
                      updated == {CustomerPreferencesSet(c, validatedData) : c \in selected}
                  IN /\ activityLogSeq < MaxLogs
                     /\ customerPreferences' = (customerPreferences \ selected) \cup updated
                     /\ \E updatedPreferences \in updated :
                          /\ activityLogs' = activityLogs \cup {createActivityLog(
                               [userId |-> userId, action |-> "update_preferences",
                                metadata |-> [budgetRange |->
                                              updatedPreferences.budgetRange]])}
                          /\ resp' = Response(200, <<updatedPreferences>>, "")
                     /\ activityLogSeq' = activityLogSeq + 1

NextBiz ==
  \/ \E auth \in Callers, body \in ProfileBodies : PostBusinessProfile(auth, body)
  \/ \E auth \in Callers : GetBusinessProfile(auth)
  \/ \E auth \in Callers, idStr \in BizIdStrings, body \in ProfileBodies :
       PutBusinessProfile(auth, idStr, body)
  \/ \E auth \in Callers, search \in SearchStrings, category \in CategoryStrings,
        limitStr \in BizLimitStrings : GetBusinesses(auth, search, category, limitStr)
  \/ \E auth \in Callers, idStr \in BizIdStrings : GetBusiness(auth, idStr)

SpecBiz == Init /\ [][NextBiz]_vars

NextPrefs ==
  \/ \E auth \in Callers, body \in PrefBodies : PostCustomerPreferences(auth, body)
  \/ \E auth \in Callers : GetCustomerPreferences(auth)
  \/ \E auth \in Callers, body \in PrefBodies : PutCustomerPreferences(auth, body)

SpecPrefs == Init /\ [][NextPrefs]_vars

----------------------------------------------------------------------------
\* Business app: recommendations (storage and routes)

\* rows of the small recommendation tables the database starts with
MaxRecs == 2
\* rows of the large recommendation table the database may start with
RecSeed == 11

\* scores, in hundredths (decimal(3, 2))
Scores == {50, 90}

RecommendationLimitDefault == 10

\* the order with ties on the score broken by the older creation time
Before_OldestFirst(a, b) ==
  \/ a.score > b.score
  \/ a.score = b.score /\ a.createdAt < b.createdAt

\* a sorts before b: higher score first, then the more recent creation time
Before(a, b) ==
  \/ a.score > b.score
  \/ a.score = b.score /\ a.createdAt > b.createdAt

\* the sequences that list the rows of S in ORDER BY score DESC, created_at DESC
RECURSIVE OrderedRecs(_)
OrderedRecs(S) ==
  IF S = {} THEN {<<>>}
  ELSE UNION {{<<r>> \o t : t \in OrderedRecs(S \ {r})} :
         r \in {x \in S : \A o \in S : ~Before(o, x)}}

\* recommendations INNER JOIN business_profiles, for one user
JoinedRecs(userId) ==
  {[id |-> r.id, userId |-> r.userId, businessId |-> r.businessId,
    score |-> r.score, isViewed |-> r.isViewed, createdAt |-> r.createdAt,
    business |-> b] :
     <<r, b>> \in {p \in recommendations \X businessProfiles :
                     p[1].businessId = p[2].id /\ p[1].userId = userId}}

\* the lists the query may return (rows that tie may come in either order)
getUserRecommendations(userId, limit) ==
  {Take(rows, limit) : rows \in OrderedRecs(JoinedRecs(userId))}

\* markRecommendationAsViewed without the user_id condition
markRecommendationAsViewed_ByIdAlone(id, userId) ==
  {r \in recommendations : r.id = id}

\* markRecommendationAsViewed matching only rows not yet viewed
markRecommendationAsViewed_OnlyUnviewed(id, userId) ==
  {r \in recommendations : r.id = id /\ r.userId = userId /\ ~r.isViewed}

\* the rows markRecommendationAsViewed's WHERE clause selects
markRecommendationAsViewed(id, userId) ==
  {r \in recommendations : r.id = id /\ r.userId = userId}

\* an UPDATE that flipped the flag of the rows it selects
SetViewed_Toggle(r) == [r EXCEPT !.isViewed = ~r.isViewed]

\* .set({ isViewed: true }) on one selected row
SetViewed(r) == [r EXCEPT !.isViewed = TRUE]

\* values of the limit query parameter of GET /api/recommendations
RecLimitStrings == {<<>>, <<"0">>, <<"1">>, <<"2">>, <<"x">>, <<"-", "1">>}
\* numerals a client puts in the :id segment of the recommendation routes
RecIdStrings == {<<"1">>, <<"2">>}

\* GET /api/recommendations
GetRecommendations(auth, limitStr) ==
  /\ req' = Request("GET /api/recommendations", auth, NoId, NoBody, LimitQuery(limitStr))
  /\ UNCHANGED <<users, inflight, auxVars>>
  /\ UNCHANGED <<weightVars, bizVars, logVars>>
  /\ IF ~isAuthenticated(auth)
     THEN resp' = Unauthorized
     ELSE LET userId == auth
              limit == LimitOr(limitStr, RecommendationLimitDefault)
          IN IF limit < 0
             THEN resp' = Response(500, <<>>, "Failed to fetch recommendations")
             ELSE \E recs \in getUserRecommendations(userId, limit) :
                    resp' = Response(200, recs, "")

\* POST /api/recommendations/:id/viewed
MarkViewed(auth, idStr) ==
  /\ req' = Request("POST /api/recommendations/:id/viewed", auth, parseInt(idStr),
                    NoBody, NoQuery)
  /\ UNCHANGED <<users, inflight, auxVars>>
  /\ UNCHANGED <<weightVars, businessProfiles, businessProfileSeq, customerPreferences,
                 customerPrefSeq, recommendationSeq, logVars>>
  /\ IF ~isAuthenticated(auth)
     THEN resp' = Unauthorized /\ UNCHANGED recommendations
     ELSE LET userId == auth
              recommendationId == parseInt(idStr).val
              selected == markRecommendationAsViewed(recommendationId, userId)
              updated == Cardinality(selected) > 0
          IN IF ~updated
             THEN /\ resp' = Response(404, <<>>, "Recommendation not found")
                  /\ UNCHANGED recommendations
             ELSE /\ recommendations' = (recommendations \ selected) \cup
                        {SetViewed(r) : r \in selected}
                  /\ resp' = Response(200, <<>>, "success")

\* the tables of n rows, ids 1..n, creation times not decreasing with the id
RECURSIVE RecTables(_)
RecTables(n) ==
  IF n = 0 THEN {{}}
  ELSE UNION {
         {t \cup {[id |-> n, userId |-> u, businessId |-> 1 + (n % 2), score |-> sc,
                   createdAt |-> c, isViewed |-> FALSE]} :
            u \in UserIds, sc \in Scores,
            c \in (IF t = {} THEN {1}
                   ELSE LET last == CHOOSE r \in t : r.id = n - 1
                        IN {last.createdAt, last.createdAt + 1})} :
         t \in RecTables(n - 1)}

\* a table of RecSeed rows of u1 and one of u2; scores and times tie
SeedTable ==
  {[id |-> i, userId |-> IF i = 1 THEN "u2" ELSE "u1", businessId |-> 1 + (i % 2),
    score |-> 50 + 10 * (i % 3), createdAt |-> 1 + (i \div 4), isViewed |-> FALSE] :
     i \in 1..(RecSeed + 1)}

InitRecs ==
  /\ weightEntries = {}
  /\ weightEntrySeq = 0
  /\ activityLogs = {}
  /\ activityLogSeq = 0
  /\ googleTokens = {}
  /\ businessProfiles =
       {BusinessProfileRow(1, [userId |-> "u1", businessName |-> <<"a", "b">>,
                               category |-> Absent, isActive |-> Absent]),
        BusinessProfileRow(2, [userId |-> "u2", businessName |-> <<"b">>,
                               category |-> Absent, isActive |-> Absent])}
  /\ businessProfileSeq = 2
  /\ customerPreferences = {}
  /\ customerPrefSeq = 0
  /\ recommendations \in {SeedTable} \cup UNION {RecTables(n) : n \in 0..MaxRecs}
  /\ recommendationSeq = Cardinality(recommendations)
  /\ users = {}
  /\ inflight = <<>>
  /\ AuxInit
  /\ req = Request("", NoSession, NoId, NoBody, NoQuery)
  /\ resp = Response(0, <<>>, "")

NextRecs ==
  \/ \E auth \in Callers, limitStr \in RecLimitStrings : GetRecommendations(auth, limitStr)
  \/ \E auth \in Callers, idStr \in RecIdStrings : MarkViewed(auth, idStr)

SpecRecs == InitRecs /\ [][NextRecs]_vars

----------------------------------------------------------------------------
\* Properties of the weight app

\* C1: the weight-entry operations a user issues never return and never
\* remove a weight entry of another user.
C1_WeightEntryIsolation ==
  [][/\ (req'.route \in {"GET /api/weight-entries", "POST /api/weight-entries",
                         "POST /api/upload-weight-photo"}
          => \A e \in Range(resp'.rows) : e.userId = req'.auth)
     /\ \A e \in weightEntries \ weightEntries' : e.userId = req'.auth]_vars

\* a user listed their own entries while another user's entry was stored
C1_Witness ==
  /\ req.route = "GET /api/weight-entries"
  /\ resp.status = 200
  /\ Len(resp.rows) > 0
  /\ \E e \in weightEntries : e.userId # req.auth

\* C2: DELETE /api/weight-entries/:id by a caller who owns no entry with that
\* id answers 404, leaves weight_entries unchanged and writes no log row.
C2_DeleteNotOwned ==
  [][(/\ req'.route = "DELETE /api/weight-entries/:id"
      /\ isAuthenticated(req'.auth)
      /\ ~\E e \in weightEntries : e.id = req'.id.val /\ e.userId = req'.auth)
     => (/\ resp'.status = 404
         /\ weightEntries' = weightEntries
         /\ activityLogs' = activityLogs)]_vars

\* a DELETE of another user's stored entry was answered 404
C2_Witness ==
  /\ req.route = "DELETE /api/weight-entries/:id"
  /\ isAuthenticated(req.auth)
  /\ resp.status = 404
  /\ \E e \in weightEntries : e.id = req.id.val /\ e.userId # req.auth

\* the action tag the route writes to the activity log
LogActionOf(route) ==
  IF route = "POST /api/weight-entries" THEN "weight_entry"
  ELSE IF route = "POST /api/upload-weight-photo" THEN "photo_upload"
  ELSE "weight_delete"

\* C3: a successful weight-entry creation, photo upload or deletion adds
\* exactly one activity-log row, of the caller, with the route's action tag and
\* the id of the entry created or deleted as metadata.entryId.
C3_OneLogRowPerMutation ==
  [][(/\ req'.route \in {"POST /api/weight-entries", "POST /api/upload-weight-photo",
                         "DELETE /api/weight-entries/:id"}
      /\ resp'.status = 200)
     => (/\ activityLogs \subseteq activityLogs'
         /\ Cardinality(activityLogs' \ activityLogs) = 1
         /\ \A l \in activityLogs' \ activityLogs :
              /\ l.userId = req'.auth
              /\ l.action = LogActionOf(req'.route)
              /\ IF req'.route = "DELETE /api/weight-entries/:id"
                 THEN /\ l.metadata.entryId = req'.id.val
                      /\ \E e \in weightEntries \ weightEntries' : e.id = req'.id.val
                 ELSE /\ l.metadata.entryId = resp'.rows[1].id
                      /\ weightEntries' \ weightEntries = {resp'.rows[1]})]_vars

\* a deletion succeeded and its log row is stored
C3_Witness ==
  /\ req.route = "DELETE /api/weight-entries/:id"
  /\ resp.status = 200
  /\ \E l \in activityLogs :
       /\ l.action = "weight_delete"
       /\ l.metadata.entryId = req.id.val
       /\ l.userId = req.auth
  /\ \E l \in activityLogs : l.action = "photo_upload"

\* C9: a successful POST /api/weight-entries answers with the stored row, whose
\* id no earlier entry had, and every entry this route creates is stored with
\* entryType "manual", the entryType its activity-log row records.
C9_ManualEntryStored ==
  [][(req'.route = "POST /api/weight-entries" /\ resp'.status = 200)
     => (/\ resp'.rows[1] \in weightEntries'
         /\ resp'.rows[1].id > weightEntrySeq
         /\ \A e \in weightEntries : e.id # resp'.rows[1].id
         /\ resp'.rows[1].entryType = "manual"
         /\ \A l \in activityLogs' \ activityLogs :
              l.metadata.entryType = resp'.rows[1].entryType)]_vars

\* C8: a request without a session is answered 401 on every route outside the
\* login, callback and logout flow, and no request without a session writes a
\* table, so none causes a write for a user id the requester names.
C8_NoSessionRejected ==
  [][req'.auth = NoSession
     => (/\ (req'.route # "GET /api/auth/google/callback" => resp'.status = 401)
         /\ UNCHANGED <<weightVars, bizVars, logVars>>)]_vars

----------------------------------------------------------------------------
\* Properties of the business app

\* the body of the request fails the validation its route applies
FailsValidation(r) ==
  \/ /\ r.route = "POST /api/business-profile"
     /\ businessProfileInsertSchema([r.body EXCEPT !.userId = r.auth]) = {}
  \/ /\ r.route = "PUT /api/business-profile/:id"
     /\ businessProfilePartialSchema(r.body) = {}
  \/ /\ r.route = "POST /api/customer-preferences"
     /\ customerPreferencesInsertSchema([r.body EXCEPT !.userId = r.auth]) = {}
  \/ /\ r.route = "PUT /api/customer-preferences"
     /\ customerPreferencesPartialSchema(r.body) = {}
  \/ /\ r.route = "POST /api/weight-entries"
     /\ weightEntryInsertSchema([r.body EXCEPT !.userId = r.auth]) = {}

\* C4 as stated: no request returns a stored business profile of a user other
\* than the caller, and PUT /api/business-profile/:id on another user's profile
\* answers 404 and leaves the row unchanged.
C4_ProfileIsolation ==
  [][/\ \A b \in Range(resp'.rows) \cap businessProfiles : b.userId = req'.auth
     /\ (/\ req'.route = "PUT /api/business-profile/:id"
         /\ isAuthenticated(req'.auth)
         /\ \E b \in businessProfiles : b.id = req'.id.val /\ b.userId # req'.auth)
        => (resp'.status = 404 /\ businessProfiles' = businessProfiles)]_vars

\* C4 amended: the owner-scoped routes (POST and GET /api/business-profile)
\* return only profiles of the caller; PUT /api/business-profile/:id on
\* another user's profile never succeeds (404 whenever the body is valid) and
\* no request changes a profile the caller does not own.  The
\* public reads GET /api/businesses and GET /api/businesses/:id are excepted.
C4_ProfileWriteIsolation ==
  [][/\ (req'.route \in {"GET /api/business-profile", "POST /api/business-profile"}
          => \A b \in Range(resp'.rows) : b.userId = req'.auth)
     /\ (/\ req'.route = "PUT /api/business-profile/:id"
         /\ isAuthenticated(req'.auth)
         /\ \E b \in businessProfiles : b.id = req'.id.val /\ b.userId # req'.auth)
        => (/\ resp'.status # 200
            /\ ~FailsValidation(req') => resp'.status = 404
            /\ businessProfiles' = businessProfiles)
     /\ \A b \in businessProfiles \ businessProfiles' : b.userId = req'.auth]_vars

\* a valid PUT on another user's stored profile was answered 404
C4_Witness ==
  /\ req.route = "PUT /api/business-profile/:id"
  /\ isAuthenticated(req.auth)
  /\ ~FailsValidation(req)
  /\ resp.status = 404
  /\ \E b \in businessProfiles : b.id = req.id.val /\ b.userId # req.auth

\* C10: a request whose body fails the route's insert-schema validation is
\* answered 400, on POST and PUT alike, and changes no table.
C10_ValidationFailure400 ==
  [][(isAuthenticated(req'.auth) /\ FailsValidation(req'))
     => (/\ resp'.status = 400
         /\ UNCHANGED <<weightVars, bizVars, logVars>>)]_vars

----------------------------------------------------------------------------
\* Properties of the recommendation routes

\* C5: GET /api/recommendations returns only recommendations of the caller;
\* POST /api/recommendations/:id/viewed on another user's recommendation
\* answers 404 and leaves the table unchanged.
C5_RecommendationIsolation ==
  [][/\ (req'.route = "GET /api/recommendations"
          => \A r \in Range(resp'.rows) : r.userId = req'.auth)
     /\ (/\ req'.route = "POST /api/recommendations/:id/viewed"
         /\ isAuthenticated(req'.auth)
         /\ \E r \in recommendations : r.id = req'.id.val /\ r.userId # req'.auth)
        => (resp'.status = 404 /\ recommendations' = recommendations)]_vars

\* marking another user's stored, unviewed recommendation was answered 404
C5_Witness ==
  /\ req.route = "POST /api/recommendations/:id/viewed"
  /\ isAuthenticated(req.auth)
  /\ resp.status = 404
  /\ \E r \in recommendations :
       r.id = req.id.val /\ r.userId # req.auth /\ ~r.isViewed

\* the limit GET /api/recommendations applies to the request
EffectiveLimit(r) == LimitOr(r.query.limit, RecommendationLimitDefault)

\* C6: the list GET /api/recommendations returns is sorted by descending
\* score, ties by the more recent creation time first; it has at most limit
\* rows (10 without a usable limit) and is the first limit rows of that order
\* over the caller's recommendations that join to a business.
C6_RecommendationListing ==
  (req.route = "GET /api/recommendations" /\ resp.status = 200)
  => LET rows == resp.rows
         all == JoinedRecs(req.auth)
         limit == EffectiveLimit(req)
     IN /\ \A i, j \in 1..Len(rows) :
             i < j => \/ rows[i].score > rows[j].score
                      \/ /\ rows[i].score = rows[j].score
                         /\ rows[i].createdAt >= rows[j].createdAt
        /\ Len(rows) <= limit
        /\ Len(rows) = IF Cardinality(all) < limit THEN Cardinality(all) ELSE limit
        /\ Range(rows) \subseteq all
        /\ Cardinality(Range(rows)) = Len(rows)
        /\ \A x \in all \ Range(rows) : \A r \in Range(rows) :
             \/ r.score > x.score
             \/ r.score = x.score /\ r.createdAt >= x.createdAt

\* a listing without a limit was cut to the default of 10 rows, scores tying
C6_Witness ==
  /\ req.route = "GET /api/recommendations"
  /\ resp.status = 200
  /\ req.query.limit = <<>>
  /\ Len(resp.rows) = RecommendationLimitDefault
  /\ Cardinality(JoinedRecs(req.auth)) > RecommendationLimitDefault
  /\ \E i \in 1..(Len(resp.rows) - 1) :
       /\ resp.rows[i].score = resp.rows[i + 1].score
       /\ resp.rows[i].createdAt > resp.rows[i + 1].createdAt

\* C7: POST /api/recommendations/:id/viewed by the owner of a recommendation
\* already viewed answers with success and changes no recommendation row.
C7_ViewedIdempotent ==
  [][(/\ req'.route = "POST /api/recommendations/:id/viewed"
      /\ \E r \in recommendations :
           r.id = req'.id.val /\ r.userId = req'.auth /\ r.isViewed)
     => (/\ resp'.status = 200
         /\ resp'.message = "success"
         /\ recommendations' = recommendations)]_vars

\* the owner marked a recommendation and it is stored as viewed
C7_Witness ==
  /\ req.route = "POST /api/recommendations/:id/viewed"
  /\ resp.status = 200
  /\ \E r \in recommendations :
       r.id = req.id.val /\ r.userId = req.auth /\ r.isViewed

----------------------------------------------------------------------------
\* Weight app: the handlers when a storage call throws a database error.
\* A call that throws writes nothing; the writes of the calls before it stay.

\* storage calls of the weight handlers, in the order the handlers make them
PostCalls == {"createWeightEntry", "createActivityLog"}
DeleteCalls == {"getWeightEntry", "deleteWeightEntry", "createActivityLog"}

\* POST /api/weight-entries, the storage call `failing` throwing
PostWeightEntryDbError(auth, body, failing) ==
  LET userId == auth
      validated == weightEntryInsertSchema([body EXCEPT !.userId = userId])
  IN /\ isAuthenticated(auth)
     /\ validated # {}
     /\ req' = Request("POST /api/weight-entries", auth, NoId, body, NoQuery)
     /\ UNCHANGED <<users, inflight, auxVars>>
     /\ resp' = Response(400, <<>>, "database error")
     /\ UNCHANGED <<bizVars, googleTokens, logVars>>
     /\ IF failing = "createWeightEntry"
        THEN UNCHANGED <<weightEntries, weightEntrySeq>>
        ELSE LET weightEntry == createWeightEntry(CHOOSE d \in validated : TRUE)
             IN /\ weightEntrySeq < MaxEntries
                /\ weightEntries' = weightEntries \cup {weightEntry}
                /\ weightEntrySeq' = weightEntry.id

\* GET /api/weight-entries, getWeightEntries throwing
GetWeightEntriesDbError(auth, limitStr) ==
  /\ isAuthenticated(auth)
  /\ req' = Request("GET /api/weight-entries", auth, NoId, NoBody, LimitQuery(limitStr))
  /\ UNCHANGED <<users, inflight, auxVars>>
  /\ resp' = Response(500, <<>>, "Failed to fetch weight entries")
  /\ UNCHANGED <<weightVars, bizVars, logVars>>

\* DELETE /api/weight-entries/:id, the storage call `failing` throwing
DeleteWeightEntryDbError(auth, idStr, failing) ==
  LET userId == auth
      entryId == parseInt(idStr).val
      entry == getWeightEntry(entryId, userId)
      deleted == deleteWeightEntry(entryId, userId)
  IN /\ isAuthenticated(auth)
     /\ failing # "getWeightEntry" => entry # {}
     /\ failing = "createActivityLog" => deleted # {}
     /\ req' = Request("DELETE /api/weight-entries/:id", auth, parseInt(idStr),
                       NoBody, NoQuery)
     /\ UNCHANGED <<users, inflight, auxVars>>
     /\ resp' = Response(500, <<>>, "Failed to delete weight entry")
     /\ UNCHANGED <<bizVars, googleTokens, weightEntrySeq, logVars>>
     /\ weightEntries' = IF failing = "createActivityLog"
                         THEN weightEntries \ deleted
                         ELSE weightEntries

\* POST /api/upload-weight-photo, the storage call `failing` throwing
UploadWeightPhotoDbError(auth, file, sample, failing) ==
  LET userId == auth
      detectedWeight == mockOCRProcessing(sample)
      photoPath == "/uploads/" \o file.filename
      weightEntry == createWeightEntry(
        [userId |-> userId, weight |-> TenthsToString(detectedWeight),
         unit |-> "lbs", entryType |-> "photo", photoPath |-> photoPath])
  IN /\ isAuthenticated(auth)
     /\ upload(file)
     /\ file.present
     /\ req' = Request("POST /api/upload-weight-photo", auth, NoId, [file |-> file],
                       NoQuery)
     /\ UNCHANGED <<users, inflight, auxVars>>
     /\ resp' = Response(500, <<>>, "database error")
     /\ UNCHANGED <<bizVars, googleTokens, logVars>>
     /\ IF failing = "createWeightEntry"
        THEN UNCHANGED <<weightEntries, weightEntrySeq>>
        ELSE /\ weightEntrySeq < MaxEntries
             /\ weightEntries' = weightEntries \cup {weightEntry}
             /\ weightEntrySeq' = weightEntry.id

\* GET /api/activity-logs, getActivityLogs throwing
GetActivityLogsDbError(auth, limitStr) ==
  /\ isAuthenticated(auth)
  /\ req' = Request("GET /api/activity-logs", auth, NoId, NoBody, LimitQuery(limitStr))
  /\ UNCHANGED <<users, inflight, auxVars>>
  /\ resp' = Response(500, <<>>, "Failed to fetch activity logs")
  /\ UNCHANGED <<weightVars, bizVars, logVars>>

\* a step in which a storage call of a weight handler throws
DbErrorStep ==
  \/ \E auth \in UserIds, body \in WeightBodies, failing \in PostCalls :
       PostWeightEntryDbError(auth, body, failing)
  \/ \E auth \in UserIds, limitStr \in LimitStrings : GetWeightEntriesDbError(auth, limitStr)
  \/ \E auth \in UserIds, idStr \in IdStrings, failing \in DeleteCalls :
       DeleteWeightEntryDbError(auth, idStr, failing)
  \/ \E auth \in UserIds, file \in Files, sample \in OcrSamples, failing \in PostCalls :
       UploadWeightPhotoDbError(auth, file, sample, failing)
  \/ \E auth \in UserIds, limitStr \in LimitStrings : GetActivityLogsDbError(auth, limitStr)

NextDbError ==
  \/ Next
  \/ DbErrorStep

\* the weight app over a database that may fail any storage call
SpecDbError == Init /\ [][NextDbError]_vars

\* C11: whenever a storage call made by a route handler fails with a database
\* error, the handler answers 500, on the create routes as on all others.
C11_DbError500 ==
  [][DbErrorStep => resp'.status = 500]_vars

\* the scoped lookup the request makes finds no row
LookupEmpty(r) ==
  \/ /\ r.route = "GET /api/business-profile"
     /\ isAuthenticated(r.auth)
     /\ getBusinessProfileByUserId(r.auth) = {}
  \/ /\ r.route = "GET /api/businesses/:id"
     /\ getBusinessProfile(r.id.val) = {}
  \/ /\ r.route = "PUT /api/business-profile/:id"
     /\ isAuthenticated(r.auth)
     /\ ~FailsValidation(r)
     /\ updateBusinessProfile(r.id.val, r.auth) = {}
  \/ /\ r.route = "GET /api/customer-preferences"
     /\ isAuthenticated(r.auth)
     /\ getCustomerPreferences(r.auth) = {}
  \/ /\ r.route = "PUT /api/customer-preferences"
     /\ isAuthenticated(r.auth)
     /\ ~FailsValidation(r)
     /\ updateCustomerPreferences(r.auth) = {}

\* C12: a scoped lookup whose storage call finds no row is answered 404, on
\* GET /api/business-profile, GET /api/businesses/:id, the two PUT routes and
\* GET /api/customer-preferences alike.
C12_EmptyLookup404 ==
  [][LookupEmpty(req') => resp'.status = 404]_vars

\* the action tag the business handlers log for a route
BizLogActionOf(route) ==
  IF route = "POST /api/business-profile" THEN "create_business_profile"
  ELSE "update_preferences"

\* C13: every successful mutating action of the business app (profile create,
\* profile update, preferences create, preferences update) writes exactly one
\* activity-log row for the caller that describes the action.
C13_OneBizLogRowPerMutation ==
  [][(/\ req'.route \in {"POST /api/business-profile", "PUT /api/business-profile/:id",
                         "POST /api/customer-preferences", "PUT /api/customer-preferences"}
      /\ resp'.status = 200)
     => (/\ activityLogs \subseteq activityLogs'
         /\ Cardinality(activityLogs' \ activityLogs) = 1
         /\ \A l \in activityLogs' \ activityLogs :
              /\ l.userId = req'.auth
              /\ req'.route # "PUT /api/business-profile/:id"
                   => l.action = BizLogActionOf(req'.route))]_vars

\* C14: the activity log is append-only: no request deletes or changes a row
\* of it, so every user's set of log rows only grows, also when the weight
\* entry a row refers to is deleted.
C14_LogAppendOnly ==
  [][/\ \A l \in activityLogs : l \in activityLogs'
     /\ \A u \in UserIds : {l \in activityLogs : l.userId = u}
                             \subseteq {l \in activityLogs' : l.userId = u}]_vars

\* an entry was deleted and the log row of its creation is still stored
C14_Witness ==
  /\ req.route = "DELETE /api/weight-entries/:id"
  /\ resp.status = 200
  /\ \E l \in activityLogs :
       /\ l.action \in {"weight_entry", "photo_upload"}
       /\ l.metadata.entryId = req.id.val
       /\ ~\E e \in weightEntries : e.id = l.metadata.entryId

----------------------------------------------------------------------------
\* Login: the Auth0 verify callback and the users table

\* logins the login clock counts
MaxLogins == 3

\* profile.displayName as a sequence of characters; NoName when it is missing
DisplayNames == {NoName, <<>>, <<"A">>, <<"A", " ", "B">>, <<"A", " ", "B", " ", "C">>}
\* profile.emails[0].value; Absent when the profile carries no email
ProfileEmails == {Absent, "a@x", "b@x"}
\* profile.picture
Pictures == {"p1", "p2"}

Profiles ==
  [id : UserIds, displayName : DisplayNames, emails : ProfileEmails, picture : Pictures]

\* String.prototype.split(" ")
RECURSIVE SplitSpace(_)
SplitSpace(s) ==
  IF \A i \in 1..Len(s) : s[i] # " " THEN <<s>>
  ELSE LET k == CHOOSE i \in 1..Len(s) : s[i] = " " /\ \A j \in 1..(i - 1) : s[j] # " "
       IN <<SubSeq(s, 1, k - 1)>> \o SplitSpace(SubSeq(s, k + 1, Len(s)))

\* Array.prototype.join(" ")
RECURSIVE JoinSpace(_)
JoinSpace(parts) ==
  IF Len(parts) = 0 THEN <<>>
  ELSE IF Len(parts) = 1 THEN parts[1]
  ELSE parts[1] \o <<" ">> \o JoinSpace(Tail(parts))

\* upsertUser of the auth module: the user data it hands to the storage
upsertUser(profile) ==
  LET nameParts == IF profile.displayName # NoName /\ profile.displayName # <<>>
                   THEN SplitSpace(profile.displayName)
                   ELSE << <<>>, <<>> >>
  IN [id |-> profile.id,
      email |-> IF profile.emails # Absent THEN profile.emails ELSE "",
      firstName |-> nameParts[1],
      lastName |-> JoinSpace(Tail(nameParts)),
      profileImageUrl |-> profile.picture]

\* the time of the next login: later than every time stored
Now ==
  1 + (IF users = {} THEN 0
       ELSE (CHOOSE u \in users : \A o \in users : o.updatedAt <= u.updatedAt).updatedAt)

\* a unique index that let any number of rows carry the empty string
EmailTaken_ExceptEmpty(userData) ==
  \E u \in users :
    u.id # userData.id /\ u.email = userData.email /\ userData.email # ""

\* the unique index on users.email rejects the insert or update
EmailTaken(userData) ==
  \E u \in users : u.id # userData.id /\ u.email = userData.email

\* DatabaseStorage.upsertUser leaving a row that is already stored as it is
DatabaseStorage_upsertUser_DoNothing(userData) ==
  IF \E u \in users : u.id = userData.id THEN users
  ELSE users \cup {[id |-> userData.id, email |-> userData.email,
                    firstName |-> userData.firstName, lastName |-> userData.lastName,
                    profileImageUrl |-> userData.profileImageUrl,
                    createdAt |-> Now, updatedAt |-> Now]}

\* DatabaseStorage.upsertUser: the users table after INSERT .. ON CONFLICT (id) DO UPDATE
DatabaseStorage_upsertUser(userData) ==
  LET old == {u \in users : u.id = userData.id}
  IN (users \ old) \cup
     {[id |-> userData.id, email |-> userData.email,
       firstName |-> userData.firstName, lastName |-> userData.lastName,
       profileImageUrl |-> userData.profileImageUrl,
       createdAt |-> IF old = {} THEN Now ELSE (CHOOSE u \in old : TRUE).createdAt,
       updatedAt |-> Now]}

\* GET /api/callback: the verify callback of the Auth0 strategy
Login(profile) ==
  /\ req' = Request("GET /api/callback", NoSession, NoId, [profile |-> profile], NoQuery)
  /\ UNCHANGED <<weightVars, bizVars, logVars, inflight, auxVars>>
  /\ Now <= MaxLogins
  /\ IF EmailTaken(upsertUser(profile))
     THEN /\ users' = users
          /\ resp' = Response(0, <<>>, "unhandled rejection")
     ELSE /\ users' = DatabaseStorage_upsertUser(upsertUser(profile))
          /\ resp' = Response(302, <<>>, "/")

NextLogin == \E profile \in Profiles : Login(profile)

SpecLogin == Init /\ [][NextLogin]_vars

\* the columns of a users row a login profile determines
ProfileColumns(u) ==
  [id |-> u.id, email |-> u.email, firstName |-> u.firstName,
   lastName |-> u.lastName, profileImageUrl |-> u.profileImageUrl]

C16_DetectedWeightStored ==
  [][(req'.route = "POST /api/upload-weight-photo" /\ resp'.status = 200)
     => LET row == resp'.rows[1]
        IN /\ resp'.detectedWeight \in 1000..2500
           /\ \E sample \in OcrSamples :
                \A file \in Files : resp'.detectedWeight = mockOCRProcessing(sample)
           /\ row \in weightEntries' \ weightEntries
           /\ row.weight = TenthsToString(resp'.detectedWeight)
           /\ row.unit = "lbs"
           /\ row.entryType = "photo"
           /\ row.photoPath = "/uploads/" \o req'.body.file.filename
           /\ resp'.photoPath = row.photoPath]_vars

\* an upload was answered with the upper end of the range, 250.0, stored as "250"
C16_Witness ==
  /\ req.route = "POST /api/upload-weight-photo"
  /\ resp.status = 200
  /\ resp.detectedWeight = 2500
  /\ \E e \in weightEntries :
       /\ e = resp.rows[1]
       /\ e.weight = "250"
       /\ e.entryType = "photo"
       /\ e.photoPath = "/uploads/f1"

----------------------------------------------------------------------------
\* Weight app over a database that may already hold a long activity log

\* log rows of u1 the database may start with
LogSeed == 11

\* LogSeed rows of u1 after one of u2, all written by POST /api/weight-entries
SeedLogs ==
  {[id |-> i, userId |-> IF i = 1 THEN "u2" ELSE "u1", action |-> "weight_entry",
    metadata |-> [entryId |-> i, entryType |-> "manual"]] : i \in 1..(LogSeed + 1)}

InitLogs ==
  /\ weightEntries = {}
  /\ weightEntrySeq = 0
  /\ activityLogs \in {{}, SeedLogs}
  /\ activityLogSeq = Cardinality(activityLogs)
  /\ googleTokens = {}
  /\ businessProfiles = {}
  /\ businessProfileSeq = 0
  /\ customerPreferences = {}
  /\ customerPrefSeq = 0
  /\ recommendations = {}
  /\ recommendationSeq = 0
  /\ users = {}
  /\ inflight = <<>>
  /\ AuxInit
  /\ req = Request("", NoSession, NoId, NoBody, NoQuery)
  /\ resp = Response(0, <<>>, "")

SpecLogs == InitLogs /\ [][Next]_vars

\* the limit GET /api/activity-logs applies to the request
LogLimit(r) ==
  IF r.query.limit # <<>> THEN parseInt(r.query.limit).val ELSE LogLimitDefault

\* C17: GET /api/activity-logs returns only rows of the caller, newest first,
\* at most limit of them (10 when no limit is given): the newest limit rows.
\* A weight_entry row of the caller with at most limit-1 later rows of the
\* caller is in the list.
C17_ActivityLogListing ==
  (req.route = "GET /api/activity-logs" /\ resp.status = 200)
  => LET rows == resp.rows
         own == {l \in activityLogs : l.userId = req.auth}
         limit == LogLimit(req)
     IN /\ \A l \in Range(rows) : l.userId = req.auth
        /\ Range(rows) \subseteq activityLogs
        /\ \A i, j \in 1..Len(rows) : i < j => rows[i].id > rows[j].id
        /\ Len(rows) <= limit
        /\ \A l \in own :
             (/\ l.action = "weight_entry"
              /\ Cardinality({o \in own : o.id > l.id}) <= limit - 1)
             => l \in Range(rows)

\* a listing without a limit returned 10 of the caller's 11 rows, the oldest
\* left out
C17_Witness ==
  /\ req.route = "GET /api/activity-logs"
  /\ resp.status = 200
  /\ req.query.limit = <<>>
  /\ Len(resp.rows) = LogLimitDefault
  /\ \E l \in activityLogs :
       /\ l.userId = req.auth
       /\ l.action = "weight_entry"
       /\ l \notin Range(resp.rows)
  /\ resp.rows[1].action = "weight_entry"

\* C18: an upload whose file part is not an image, or is larger than 10 MB, is
\* rejected by the upload filter before the handler runs: it is not answered
\* by the handler and creates no weight entry and no activity-log row.
C18_UploadFilter ==
  [][(/\ req'.route = "POST /api/upload-weight-photo"
      /\ isAuthenticated(req'.auth)
      /\ req'.body.file.present
      /\ (req'.body.file.type # "image" \/ req'.body.file.size > fileSizeLimit))
     => (/\ resp'.status \notin {200, 400}
         /\ resp'.rows = <<>>
         /\ UNCHANGED <<weightEntries, weightEntrySeq, activityLogs, activityLogSeq>>)]_vars

\* a text file of an allowed size, sent by a user with stored entries, was rejected
C18_Witness ==
  /\ req.route = "POST /api/upload-weight-photo"
  /\ isAuthenticated(req.auth)
  /\ req.body.file.present
  /\ req.body.file.type = "text"
  /\ req.body.file.size <= fileSizeLimit
  /\ resp.status = 500
  /\ \E e \in weightEntries : e.userId = req.auth

----------------------------------------------------------------------------
\* Both apps' mutating routes over one database, requests of the two users
\* interleaved in every order

\* a database that already holds one recommendation for each user
InitUsers ==
  /\ weightEntries = {}
  /\ weightEntrySeq = 0
  /\ activityLogs = {}
  /\ activityLogSeq = 0
  /\ googleTokens = {}
  /\ businessProfiles = {}
  /\ businessProfileSeq = 0
  /\ customerPreferences = {}
  /\ customerPrefSeq = 0
  /\ recommendations =
       {[id |-> 1, userId |-> "u1", businessId |-> 1, score |-> 50, createdAt |-> 1,
         isViewed |-> FALSE],
        [id |-> 2, userId |-> "u2", businessId |-> 1, score |-> 90, createdAt |-> 1,
         isViewed |-> FALSE]}
  /\ recommendationSeq = 2
  /\ users = {}
  /\ inflight = <<>>
  /\ AuxInit
  /\ req = Request("", NoSession, NoId, NoBody, NoQuery)
  /\ resp = Response(0, <<>>, "")

\* the requests of this specification: bodies that pass validation and carry
\* a userId field naming u2; one image file
ValidWeightBodies ==
  {b \in WeightBodies : b.weight \in Weights /\ b.entryType = Absent /\ b.userId = "u2"}
ValidProfileBodies ==
  {b \in ProfileBodies :
     b.businessName \in BusinessNames /\ b.isActive = Absent /\ b.userId = "u2"}
ValidPrefBodies == {b \in PrefBodies : b.budgetRange = "low" /\ b.userId = "u2"}
ImageFiles == {f \in Files : f.present /\ upload(f)}

\* numerals of the ids the tables hand out
UsersIdStrings == {<<"1">>, <<"2">>}

NextUsers ==
  \/ \E auth \in UserIds, body \in ValidWeightBodies : PostWeightEntry(auth, body)
  \/ \E auth \in UserIds, idStr \in UsersIdStrings : DeleteWeightEntry(auth, idStr)
  \/ \E auth \in UserIds, file \in ImageFiles :
       UploadWeightPhoto(auth, file, CHOOSE sample \in OcrSamples : TRUE)
  \/ \E auth \in UserIds, body \in ValidProfileBodies : PostBusinessProfile(auth, body)
  \/ \E auth \in UserIds, idStr \in UsersIdStrings, body \in ValidProfileBodies :
       PutBusinessProfile(auth, idStr, body)
  \/ \E auth \in UserIds, body \in ValidPrefBodies : PostCustomerPreferences(auth, body)
  \/ \E auth \in UserIds, body \in ValidPrefBodies : PutCustomerPreferences(auth, body)
  \/ \E auth \in UserIds, idStr \in UsersIdStrings : MarkViewed(auth, idStr)

SpecUsers == InitUsers /\ [][NextUsers]_vars

\* the rows of table t that belong to a user other than u
RowsOfOthers(t, u) == {r \in t : r.userId # u}

\* C19: a request authenticated as one user leaves every weight entry,
\* business profile, customer-preferences row, recommendation and
\* activity-log row of every other user as it was, whatever the order in
\* which the users' requests are served.
C19_UsersIndependent ==
  [][isAuthenticated(req'.auth)
     => (/\ RowsOfOthers(weightEntries, req'.auth) \subseteq weightEntries'
         /\ RowsOfOthers(businessProfiles, req'.auth) \subseteq businessProfiles'
         /\ RowsOfOthers(customerPreferences, req'.auth) \subseteq customerPreferences'
         /\ RowsOfOthers(recommendations, req'.auth) \subseteq recommendations'
         /\ RowsOfOthers(activityLogs, req'.auth) \subseteq activityLogs')]_vars

\* u1 updated its business profile while u2 owns a weight entry, a business
\* profile and a log row
C19_Witness ==
  /\ req.route = "PUT /api/business-profile/:id"
  /\ req.auth = "u1"
  /\ resp.status = 200
  /\ \E e \in weightEntries : e.userId = "u2"
  /\ \E b \in businessProfiles : b.userId = "u2" /\ b.id # req.id.val
  /\ \E l \in activityLogs : l.userId = "u2"
  /\ \E r \in recommendations : r.userId = "u2"

\* C20: GET /api/businesses returns only active businesses.  With a search
\* string every returned business name contains it as a substring, the list
\* is ordered by business name and, a category given too, every returned
\* business has that category; without one the list holds at most limit
\* (default 50) businesses, newest first.
C20_BusinessListing ==
  (req.route = "GET /api/businesses" /\ resp.status = 200)
  => LET rows == resp.rows
     IN /\ \A b \in Range(rows) : b.isActive
        /\ req.query.search # <<>>
             => (/\ \A b \in Range(rows) : Contains(b.businessName, req.query.search)
                 /\ \A i, j \in 1..Len(rows) :
                      i < j => NameLeq(rows[i].businessName, rows[j].businessName)
                 /\ req.query.category # ""
                      => \A b \in Range(rows) : b.category = req.query.category)
        /\ req.query.search = <<>>
             => (/\ Len(rows) <= LimitOr(req.query.limit, BusinessLimitDefault)
                 /\ \A i, j \in 1..Len(rows) : i < j => rows[i].id > rows[j].id)

----------------------------------------------------------------------------
\* DELETE /api/weight-entries/:id served concurrently: a handler is suspended
\* at each await, and the storage calls of several handlers interleave

\* handlers that may be in flight at a time
MaxInflight == 2
Handles == 1..MaxInflight

\* a handle that serves no request yet
Idle == [pc |-> "idle", auth |-> NoSession, id |-> NoId, entry |-> {}, status |-> 0]

DeleteRequest(h) ==
  Request("DELETE /api/weight-entries/:id", inflight[h].auth, inflight[h].id,
          NoBody, NoQuery)

\* the handler up to its first await: isAuthenticated, then getWeightEntry
DeleteRead(h, auth, idStr) ==
  /\ inflight[h].pc = "idle"
  /\ req' = Request("DELETE /api/weight-entries/:id", auth, parseInt(idStr), NoBody, NoQuery)
  /\ UNCHANGED <<weightVars, bizVars, logVars, users, auxVars>>
  /\ IF ~isAuthenticated(auth)
     THEN /\ inflight' = [inflight EXCEPT ![h] =
                 [pc |-> "done", auth |-> auth, id |-> parseInt(idStr), entry |-> {},
                  status |-> 401]]
          /\ resp' = Unauthorized
     ELSE LET entry == getWeightEntry(parseInt(idStr).val, auth)
          IN IF entry = {}
             THEN /\ inflight' = [inflight EXCEPT ![h] =
                        [pc |-> "done", auth |-> auth, id |-> parseInt(idStr),
                         entry |-> {}, status |-> 404]]
                  /\ resp' = Response(404, <<>>, "Weight entry not found")
             ELSE /\ inflight' = [inflight EXCEPT ![h] =
                        [pc |-> "read", auth |-> auth, id |-> parseInt(idStr),
                         entry |-> entry, status |-> 0]]
                  /\ UNCHANGED resp

\* the second await answering success whatever row count the DELETE reports
DeleteRemove_IgnoreRowCount(h) ==
  /\ inflight[h].pc = "read"
  /\ req' = DeleteRequest(h)
  /\ UNCHANGED <<weightEntrySeq, googleTokens, bizVars, logVars, users, auxVars, resp>>
  /\ weightEntries' = weightEntries \ deleteWeightEntry(inflight[h].id.val, inflight[h].auth)
  /\ inflight' = [inflight EXCEPT ![h].pc = "deleted"]

\* the second await: deleteWeightEntry, then the test of its result
DeleteRemove(h) ==
  /\ inflight[h].pc = "read"
  /\ req' = DeleteRequest(h)
  /\ UNCHANGED <<weightEntrySeq, googleTokens, bizVars, logVars, users, auxVars>>
  /\ LET deleted == deleteWeightEntry(inflight[h].id.val, inflight[h].auth)
     IN /\ weightEntries' = weightEntries \ deleted
        /\ IF deleted # {}
           THEN /\ inflight' = [inflight EXCEPT ![h].pc = "deleted"]
                /\ UNCHANGED resp
           ELSE /\ inflight' = [inflight EXCEPT ![h].pc = "done", ![h].status = 404]
                /\ resp' = Response(404, <<>>, "Weight entry not found")

\* the third await: createActivityLog, then the success response
DeleteLog(h) ==
  /\ inflight[h].pc = "deleted"
  /\ activityLogSeq < MaxLogs
  /\ req' = DeleteRequest(h)
  /\ UNCHANGED <<weightVars, bizVars, users, auxVars>>
  /\ LET e == CHOOSE x \in inflight[h].entry : TRUE
     IN activityLogs' = activityLogs \cup {createActivityLog(
          [userId |-> inflight[h].auth, action |-> "weight_delete",
           metadata |-> [entryId |-> inflight[h].id.val,
                         deletedWeight |-> e.weight,
                         deletedUnit |-> e.unit]])}
  /\ activityLogSeq' = activityLogSeq + 1
  /\ inflight' = [inflight EXCEPT ![h].pc = "done", ![h].status = 200]
  /\ resp' = Response(200, <<>>, "Weight entry deleted successfully")

InitRace ==
  /\ weightEntries = {}
  /\ weightEntrySeq = 0
  /\ activityLogs = {}
  /\ activityLogSeq = 0
  /\ googleTokens = {}
  /\ businessProfiles = {}
  /\ businessProfileSeq = 0
  /\ customerPreferences = {}
  /\ customerPrefSeq = 0
  /\ recommendations = {}
  /\ recommendationSeq = 0
  /\ users = {}
  /\ inflight = [h \in Handles |-> Idle]
  /\ AuxInit
  /\ req = Request("", NoSession, NoId, NoBody, NoQuery)
  /\ resp = Response(0, <<>>, "")

NextRace ==
  \/ \E auth \in UserIds, body \in ValidWeightBodies : PostWeightEntry(auth, body)
  \/ \E h \in Handles, auth \in Callers, idStr \in UsersIdStrings : DeleteRead(h, auth, idStr)
  \/ \E h \in Handles : DeleteRemove(h)
  \/ \E h \in Handles : DeleteLog(h)

SpecRace == InitRace /\ [][NextRace]_vars

\* the handlers that read the same entry for the same caller as handler g
Racers(g) ==
  {h \in Handles : /\ inflight[h].entry # {}
                   /\ inflight[h].auth = inflight[g].auth
                   /\ inflight[h].id = inflight[g].id}

\* C21: DELETE requests by the owner for the same entry, all of which read
\* the entry before any removed it, end, once all are answered, with exactly
\* one success and 404 for every other; the entry is gone and exactly one
\* weight_delete log row names it.
C21_ConcurrentDeleteOnce ==
  \A g \in Handles :
    (/\ inflight[g].entry # {}
     /\ Cardinality(Racers(g)) >= 2
     /\ \A h \in Racers(g) : inflight[h].pc = "done")
    => (/\ Cardinality({h \in Racers(g) : inflight[h].status = 200}) = 1
        /\ \A h \in Racers(g) : inflight[h].status \in {200, 404}
        /\ ~\E e \in weightEntries : e.id = inflight[g].id.val
        /\ Cardinality({l \in activityLogs :
             /\ l.action = "weight_delete"
             /\ l.metadata.entryId = inflight[g].id.val}) = 1)

\* both requests read the entry and both have been answered
C21_Witness ==
  \E g, h \in Handles :
    /\ g # h
    /\ inflight[g].pc = "done" /\ inflight[h].pc = "done"
    /\ inflight[g].auth = inflight[h].auth
    /\ inflight[g].id = inflight[h].id
    /\ inflight[g].entry # {} /\ inflight[h].entry # {}
    /\ inflight[g].status = 200
    /\ inflight[h].status = 404

\* C22: once every request has completed, runs with failing database writes
\* included, each stored weight entry has exactly one creation log row
\* (action "weight_entry" or "photo_upload") whose metadata.entryId is its id.
C22_EntryHasCreationLog ==
  \A e \in weightEntries :
    Cardinality({l \in activityLogs :
      /\ l.action \in {"weight_entry", "photo_upload"}
      /\ l.metadata.entryId = e.id}) = 1

----------------------------------------------------------------------------
\* Business app: reviews (POST /api/businesses/:id/reviews) and the owner of
\* the rows the create routes store

\* serial ids handed out by business_reviews
MaxReviews == 2

\* businessReviewInsertSchema.parse: businessId a number, customerId and
\* rating strings; the validated data, or none when it throws
businessReviewInsertSchema(data) ==
  IF /\ ~data.businessId.nan
     /\ data.customerId \in UserIds
     /\ data.rating \notin {Absent, NotAString}
  THEN {data}
  ELSE {}

\* bodies of the review route; businessId = NoId: the body carries none
ReviewBodies ==
  [rating : {"4.5", Absent},
   customerId : {Absent, "u2"},
   businessId : {NoId, [nan |-> FALSE, val |-> 2]}]

\* the object the route validates, were the body spread last
ReviewData_BodyLast(body, businessId, userId) ==
  [rating |-> body.rating,
   businessId |-> IF body.businessId = NoId THEN businessId ELSE body.businessId,
   customerId |-> IF body.customerId = Absent THEN userId ELSE body.customerId]

\* { ...req.body, businessId, customerId: userId }
ReviewData(body, businessId, userId) ==
  [rating |-> body.rating, businessId |-> businessId, customerId |-> userId]

\* the business_reviews row of an insert: serial id, is_verified defaults to false
BusinessReviewRow(id, review) ==
  [id |-> id,
   businessId |-> review.businessId.val,
   customerId |-> review.customerId,
   rating |-> review.rating,
   isVerified |-> FALSE]

createBusinessReview(review) == BusinessReviewRow(businessReviewSeq + 1, review)

\* POST /api/businesses/:id/reviews; the insert throws when business_id
\* references no business_profiles row, and the catch block answers 400
PostBusinessReview(auth, idStr, body) ==
  /\ req' = Request("POST /api/businesses/:id/reviews", auth, parseInt(idStr),
                    body, NoQuery)
  /\ UNCHANGED <<users, inflight, goStore, subscribers>>
  /\ UNCHANGED <<weightVars, bizVars>>
  /\ IF ~isAuthenticated(auth)
     THEN /\ resp' = Unauthorized
          /\ UNCHANGED <<businessReviews, businessReviewSeq, logVars>>
     ELSE LET userId == auth
              businessId == parseInt(idStr)
              validated == businessReviewInsertSchema(ReviewData(body, businessId, userId))
          IN IF \/ validated = {}
                \/ \A d \in validated : getBusinessProfile(d.businessId.val) = {}
             THEN /\ resp' = Response(400, <<>>, "Invalid review data")
                  /\ UNCHANGED <<businessReviews, businessReviewSeq, logVars>>
             ELSE LET validatedData == CHOOSE d \in validated : TRUE
                      review == createBusinessReview(validatedData)
                  IN /\ businessReviewSeq < MaxReviews
                     /\ activityLogSeq < MaxLogs
                     /\ businessReviews' = businessReviews \cup {review}
                     /\ businessReviewSeq' = review.id
                     /\ activityLogs' = activityLogs \cup {createActivityLog(
                          [userId |-> userId, action |-> "add_review",
                           metadata |-> [businessId |-> businessId.val,
                                         rating |-> review.rating]])}
                     /\ activityLogSeq' = activityLogSeq + 1
                     /\ resp' = Response(200, <<review>>, "")

\* the four create routes, with bodies that pass validation and bodies that
\* name another user
NextCreate ==
  \/ \E auth \in Callers, body \in ValidWeightBodies : PostWeightEntry(auth, body)
  \/ \E auth \in Callers, body \in ValidProfileBodies : PostBusinessProfile(auth, body)
  \/ \E auth \in Callers, body \in ValidPrefBodies : PostCustomerPreferences(auth, body)
  \/ \E auth \in Callers, idStr \in BizIdStrings, body \in ReviewBodies :
       PostBusinessReview(auth, idStr, body)

SpecCreate == Init /\ [][NextCreate]_vars

\* C23: every row a create route stores is owned by the caller whatever the
\* body says: a userId of the body is overridden in weight entries, business
\* profiles and customer preferences, and a review is stored with customerId
\* the caller's id and businessId the id of the path.
C23_CreatedRowsOwnedByCaller ==
  [][/\ \A e \in weightEntries' \ weightEntries : e.userId = req'.auth
     /\ \A b \in businessProfiles' \ businessProfiles : b.userId = req'.auth
     /\ \A c \in customerPreferences' \ customerPreferences : c.userId = req'.auth
     /\ \A r \in businessReviews' \ businessReviews :
          /\ r.customerId = req'.auth
          /\ ~req'.id.nan
          /\ r.businessId = req'.id.val]_vars

\* a review stored for u1 on business 1 from a body naming u2 and business 2,
\* next to a profile of u1 created from a body naming u2
C23_Witness ==
  /\ req.route = "POST /api/businesses/:id/reviews"
  /\ req.auth = "u1"
  /\ req.body.customerId = "u2"
  /\ req.body.businessId.val = 2
  /\ resp.status = 200
  /\ \E r \in businessReviews : r.customerId = "u1" /\ r.businessId = 1
  /\ \E b \in businessProfiles : b.userId = "u1"

\* C24: the owner of a row never changes after its creation: no PUT
\* /api/business-profile/:id and no PUT /api/customer-preferences, whatever
\* its body, changes the userId of a stored row.
C24_OwnerNeverChanges ==
  [][/\ \A b \in businessProfiles : \A c \in businessProfiles' :
          b.id = c.id => b.userId = c.userId
     /\ \A p \in customerPreferences : \A q \in customerPreferences' :
          p.id = q.id => p.userId = q.userId]_vars

\* C25: after any sequence of logins no two users rows share an email: a
\* login whose profile maps to an email held by the row of another id, the
\* empty string substituted for a missing email included, fails at the upsert
\* and leaves the users table as it was.
C25_EmailUnique ==
  [][/\ \A u, v \in users' : u.email = v.email => u.id = v.id
     /\ EmailTaken(upsertUser(req'.body.profile))
          => (users' = users /\ resp'.status # 302)]_vars

\* a login without email was refused while another user's row holds ""
C25_Witness ==
  /\ req.route = "GET /api/callback"
  /\ req.body.profile.emails = Absent
  /\ resp.status # 302
  /\ \E u \in users : u.id # req.body.profile.id /\ u.email = ""
  /\ ~\E u \in users : u.id = req.body.profile.id

\* C26: the isViewed flag of a recommendation is monotonic: a row that is
\* viewed is still stored, and still viewed, after every step, since the one
\* operation that writes the flag sets it to true and nothing deletes rows.
C26_ViewedMonotonic ==
  [][\A r \in recommendations :
       r.isViewed => \E q \in recommendations' : q.id = r.id /\ q.isViewed]_vars

\* a recommendation was marked as viewed while another one, marked by an
\* earlier request, is still stored as viewed
C26_Witness ==
  /\ req.route = "POST /api/recommendations/:id/viewed"
  /\ resp.status = 200
  /\ \E r, q \in recommendations :
       /\ r.id = req.id.val /\ r.userId = req.auth /\ r.isViewed
       /\ q.id # r.id /\ q.isViewed

\* C27: POST /api/upload-weight-photo by an authenticated user with no file
\* part is answered 400 "No file uploaded" and leaves the weight-entries and
\* activity-log tables unchanged.
C27_NoFile400 ==
  [][(/\ req'.route = "POST /api/upload-weight-photo"
      /\ isAuthenticated(req'.auth)
      /\ ~req'.body.file.present)
     => (/\ resp'.status = 400
         /\ resp'.message = "No file uploaded"
         /\ UNCHANGED <<weightEntries, weightEntrySeq, activityLogs, activityLogSeq>>)]_vars

\* a user with a stored entry and its log row sent an upload without file
C27_Witness ==
  /\ req.route = "POST /api/upload-weight-photo"
  /\ isAuthenticated(req.auth)
  /\ ~req.body.file.present
  /\ resp.status = 400
  /\ \E e \in weightEntries : e.userId = req.auth
  /\ \E l \in activityLogs : l.userId = req.auth

----------------------------------------------------------------------------
\* The Go user service (weightwise-go): store, service, endpoint and decoder
\* behind GET /api/auth/user.  Under SpecGo `req` is the sequence of user_id
\* query values served so far and `resp` the sequence of their outcomes.

\* requests the Go service serves in one run
MaxCalls == 4

\* values of the user_id query parameter; "" also when it is not given
GoUserIds == {"", "user1", "user2", "User1", "u1"}

\* a nil error
NilError == "<nil>"
\* service.User{}
ZeroUser == [ID |-> "", Email |-> "", FullName |-> ""]

\* a store that answered a missing id with the zero user and no error
InMemoryUserStore_GetUser_NoError(id) ==
  IF id \in DOMAIN goStore
  THEN [user |-> goStore[id], err |-> NilError]
  ELSE [user |-> ZeroUser, err |-> NilError]

\* (*InMemoryUserStore).GetUser
InMemoryUserStore_GetUser(id) ==
  IF id \in DOMAIN goStore
  THEN [user |-> goStore[id], err |-> NilError]
  ELSE [user |-> ZeroUser, err |-> "user not found"]

\* (*userService).GetUser
userService_GetUser(userID) == InMemoryUserStore_GetUser(userID)

\* the endpoint MakeGetUserEndpoint returns, applied to a request
MakeGetUserEndpoint(request) ==
  LET got == userService_GetUser(request.UserID)
  IN IF got.err # NilError
     THEN [response |-> [User |-> ZeroUser, Err |-> got.err], err |-> NilError]
     ELSE [response |-> [User |-> got.user, Err |-> ""], err |-> NilError]

\* DecodeGetUserRequest: the decoded requests (none when it fails) and its error
DecodeGetUserRequest(userID) ==
  IF userID = ""
  THEN [request |-> {}, err |-> "http: named cookie not present"]
  ELSE [request |-> {[UserID |-> userID]}, err |-> NilError]

\* GET /api/auth/user of the Go server: decode, then the endpoint, then encode;
\* a decoding error ends the request before the endpoint is called
GoGetUser(userID) ==
  /\ Len(req) < MaxCalls
  /\ req' = Append(req, userID)
  /\ UNCHANGED <<weightVars, bizVars, logVars, users, inflight, auxVars>>
  /\ LET decoded == DecodeGetUserRequest(userID)
     IN IF decoded.err # NilError
        THEN resp' = Append(resp, [called |-> FALSE, decodeErr |-> decoded.err,
                                   endpointErr |-> NilError, body |-> {}])
        ELSE \E request \in decoded.request :
               LET out == MakeGetUserEndpoint(request)
               IN resp' = Append(resp, [called |-> TRUE, decodeErr |-> NilError,
                                        endpointErr |-> out.err,
                                        body |-> IF out.err = NilError
                                                 THEN {out.response} ELSE {}])

\* main: the store as constructed, nothing served yet
InitGo ==
  /\ weightEntries = {}
  /\ weightEntrySeq = 0
  /\ activityLogs = {}
  /\ activityLogSeq = 0
  /\ googleTokens = {}
  /\ businessProfiles = {}
  /\ businessProfileSeq = 0
  /\ customerPreferences = {}
  /\ customerPrefSeq = 0
  /\ recommendations = {}
  /\ recommendationSeq = 0
  /\ users = {}
  /\ inflight = <<>>
  /\ AuxInit
  /\ req = <<>>
  /\ resp = <<>>

NextGo == \E userID \in GoUserIds : GoGetUser(userID)

SpecGo == InitGo /\ [][NextGo]_vars

\* C28: the GetUser endpoint never returns a non-nil error: an id present in
\* the store is answered with that user and an empty Err, any other id with
\* the zero user and Err "user not found"; the store is never changed and a
\* repeated id gets the response it got before; an empty user_id is rejected
\* by the decoder and the service is not called.
C28_GoGetUser ==
  [][LET userID == req'[Len(req')]
         r == resp'[Len(resp')]
     IN /\ goStore' = goStore
        /\ r.endpointErr = NilError
        /\ userID = "" => (~r.called /\ r.body = {} /\ r.decodeErr # NilError)
        /\ userID # "" =>
             /\ r.called
             /\ r.body = {IF userID \in DOMAIN goStore
                          THEN [User |-> goStore[userID], Err |-> ""]
                          ELSE [User |-> ZeroUser, Err |-> "user not found"]}
        /\ \A i \in 1..Len(req) : req[i] = userID => resp[i] = r]_vars

\* the stored user was served twice, an unknown id and an empty id once
C28_Witness ==
  /\ Len(req) = 4
  /\ req[1] = "user1" /\ req[2] = "user2" /\ req[3] = "" /\ req[4] = "user1"
  /\ resp[4] = resp[1]
  /\ resp[1].body = {[User |-> goStore["user1"], Err |-> ""]}
  /\ resp[2].body = {[User |-> ZeroUser, Err |-> "user not found"]}
  /\ ~resp[3].called

----------------------------------------------------------------------------
\* Landing site: the subscribe POST handler and its subscribers table

\* rows the subscribers table takes in one run
MaxSubscribers == 3

\* email values of a JSON object, as sequences of characters; NoName when the
\* object has no email field, NotAName when the field is not a string
BodyEmails == {NoName, NotAName, <<>>, <<"a">>, <<"@">>, <<"a", "@", "x">>}

\* request bodies: text that is not JSON, the JSON values null and 5, and objects
SubscribeBodies ==
  {[kind |-> k, email |-> NoName] : k \in {"malformed", "null", "number"}}
    \cup {[kind |-> "object", email |-> e] : e \in BodyEmails}

\* String.prototype.includes("@")
IncludesAt(s) == \E i \in 1..Len(s) : s[i] = "@"

\* safeQuery("INSERT INTO subscribers (email) VALUES ($1)", [email])
safeQuery(email) == Append(subscribers, email)

\* POST of the landing site.  req.json() rejects text that is not JSON and
\* body.email throws on null; the framework answers an exception with 500.
Subscribe(body) ==
  /\ req' = Request("POST subscribe", NoSession, NoId, body, NoQuery)
  /\ UNCHANGED <<weightVars, bizVars, logVars, users, inflight>>
  /\ UNCHANGED <<businessReviews, businessReviewSeq, goStore>>
  /\ IF body.kind \in {"malformed", "null"}
     THEN /\ resp' = Response(500, <<>>, "Internal Server Error")
          /\ UNCHANGED subscribers
     ELSE LET email == IF body.kind = "object" /\ body.email \notin {NoName, NotAName}
                       THEN body.email ELSE <<>>
          IN IF ~IncludesAt(email)
             THEN /\ resp' = Response(400, <<>>, "invalid")
                  /\ UNCHANGED subscribers
             ELSE /\ Len(subscribers) < MaxSubscribers
                  /\ subscribers' = safeQuery(email)
                  /\ resp' = Response(200, <<>>, "ok")

NextLanding == \E body \in SubscribeBodies : Subscribe(body)

SpecLanding == Init /\ [][NextLanding]_vars

\* C29: the subscribe handler inserts a subscriber row only when the body's
\* email is a string containing "@"; every other JSON body is answered 400
\* with {error: "invalid"} and inserts nothing.
C29_SubscribeValidation ==
  [][LET body == req'.body
         valid == /\ body.kind = "object"
                  /\ body.email \notin {NoName, NotAName}
                  /\ IncludesAt(body.email)
     IN /\ subscribers' # subscribers => valid
        /\ (~valid /\ body.kind # "malformed")
             => (/\ resp'.status = 400
                 /\ resp'.message = "invalid"
                 /\ subscribers' = subscribers)]_vars

----------------------------------------------------------------------------
\* encrypt / decrypt (aes-256-gcm).  Strings are sequences of UTF-16 code
\* units, buffers sequences of bytes, base64 text a sequence of characters.
\* Under SpecCrypto `req` is the text and key handed to encrypt and `resp`
\* the payload with what became of it.

\* code units of a text
MaxTextLen == 2

\* "A", e-acute, the euro sign, a high and a low surrogate
CodeUnits == {65, 233, 8364, 55357, 56832}

RECURSIVE SeqsUpTo(_, _)
SeqsUpTo(S, n) ==
  IF n = 0 THEN {<<>>}
  ELSE LET shorter == SeqsUpTo(S, n - 1)
       IN shorter \cup {Append(t, c) : t \in {x \in shorter : Len(x) = n - 1}, c \in S}

Texts == SeqsUpTo(CodeUnits, MaxTextLen)

\* 32-byte keys and the 12-byte values crypto.randomBytes(12) may return
Keys == {[i \in 1..32 |-> 1], [i \in 1..32 |-> 2]}
IVs == {[i \in 1..12 |-> 3], [i \in 1..12 |-> 200]}

IsHighSurrogate(c) == c >= 55296 /\ c <= 56319
IsLowSurrogate(c) == c >= 56320 /\ c <= 57343

\* a string without unpaired surrogate
RECURSIVE WellFormed(_)
WellFormed(s) ==
  IF s = <<>> THEN TRUE
  ELSE IF IsHighSurrogate(s[1])
  THEN Len(s) >= 2 /\ IsLowSurrogate(s[2]) /\ WellFormed(SubSeq(s, 3, Len(s)))
  ELSE ~IsLowSurrogate(s[1]) /\ WellFormed(Tail(s))

\* the bytes of a string in "utf8": an unpaired surrogate becomes U+FFFD
RECURSIVE Utf8Encode(_)
Utf8Encode(s) ==
  IF s = <<>> THEN <<>>
  ELSE LET c == s[1]
       IN IF c < 128 THEN <<c>> \o Utf8Encode(Tail(s))
          ELSE IF c < 2048
          THEN <<192 + (c \div 64), 128 + (c % 64)>> \o Utf8Encode(Tail(s))
          ELSE IF IsHighSurrogate(c) /\ Len(s) >= 2 /\ IsLowSurrogate(s[2])
          THEN LET cp == 65536 + (c - 55296) * 1024 + (s[2] - 56320)
               IN <<240 + (cp \div 262144), 128 + ((cp \div 4096) % 64),
                    128 + ((cp \div 64) % 64), 128 + (cp % 64)>>
                  \o Utf8Encode(SubSeq(s, 3, Len(s)))
          ELSE IF IsHighSurrogate(c) \/ IsLowSurrogate(c)
          THEN <<239, 191, 189>> \o Utf8Encode(Tail(s))
          ELSE <<224 + (c \div 4096), 128 + ((c \div 64) % 64), 128 + (c % 64)>>
               \o Utf8Encode(Tail(s))

IsContinuation(b) == b >= 128 /\ b <= 191

\* Buffer.prototype.toString("utf8"): a byte that starts no valid sequence
\* becomes U+FFFD
RECURSIVE Utf8Decode(_)
Utf8Decode(b) ==
  IF b = <<>> THEN <<>>
  ELSE IF b[1] < 128 THEN <<b[1]>> \o Utf8Decode(Tail(b))
  ELSE IF b[1] >= 194 /\ b[1] <= 223 /\ Len(b) >= 2 /\ IsContinuation(b[2])
  THEN <<(b[1] - 192) * 64 + (b[2] - 128)>> \o Utf8Decode(SubSeq(b, 3, Len(b)))
  ELSE IF /\ b[1] >= 224 /\ b[1] <= 239 /\ Len(b) >= 3
          /\ IsContinuation(b[2]) /\ IsContinuation(b[3])
          /\ (b[1] = 224 => b[2] >= 160)
          /\ (b[1] = 237 => b[2] < 160)
  THEN <<(b[1] - 224) * 4096 + (b[2] - 128) * 64 + (b[3] - 128)>>
       \o Utf8Decode(SubSeq(b, 4, Len(b)))
  ELSE IF /\ b[1] >= 240 /\ b[1] <= 244 /\ Len(b) >= 4
          /\ IsContinuation(b[2]) /\ IsContinuation(b[3]) /\ IsContinuation(b[4])
          /\ (b[1] = 240 => b[2] >= 144)
          /\ (b[1] = 244 => b[2] < 144)
  THEN LET cp == (b[1] - 240) * 262144 + (b[2] - 128) * 4096
                 + (b[3] - 128) * 64 + (b[4] - 128)
       IN <<55296 + ((cp - 65536) \div 1024), 56320 + ((cp - 65536) % 1024)>>
          \o Utf8Decode(SubSeq(b, 5, Len(b)))
  ELSE <<65533>> \o Utf8Decode(Tail(b))

\* the base64 alphabet
Base64Chars ==
  <<"A", "B", "C", "D", "E", "F", "G", "H", "I", "J", "K", "L", "M",
    "N", "O", "P", "Q", "R", "S", "T", "U", "V", "W", "X", "Y", "Z",
    "a", "b", "c", "d", "e", "f", "g", "h", "i", "j", "k", "l", "m",
    "n", "o", "p", "q", "r", "s", "t", "u", "v", "w", "x", "y", "z",
    "0", "1", "2", "3", "4", "5", "6", "7", "8", "9", "+", "/">>

\* Buffer.prototype.toString("base64")
RECURSIVE Base64Encode(_)
Base64Encode(b) ==
  IF b = <<>> THEN <<>>
  ELSE IF Len(b) = 1
  THEN <<Base64Chars[1 + (b[1] \div 4)], Base64Chars[1 + (b[1] % 4) * 16], "=", "=">>
  ELSE IF Len(b) = 2
  THEN <<Base64Chars[1 + (b[1] \div 4)],
         Base64Chars[1 + (b[1] % 4) * 16 + (b[2] \div 16)],
         Base64Chars[1 + (b[2] % 16) * 4], "=">>
  ELSE <<Base64Chars[1 + (b[1] \div 4)],
         Base64Chars[1 + (b[1] % 4) * 16 + (b[2] \div 16)],
         Base64Chars[1 + (b[2] % 16) * 4 + (b[3] \div 64)],
         Base64Chars[1 + (b[3] % 64)]>>
       \o Base64Encode(SubSeq(b, 4, Len(b)))

\* the 6-bit values of base64 text as Buffer.from reads it: "=" ends the
\* text, "-" and "_" count as "+" and "/", any other character is skipped
RECURSIVE Sextets(_)
Sextets(t) ==
  IF t = <<>> \/ t[1] = "=" THEN <<>>
  ELSE IF t[1] = "-" THEN <<62>> \o Sextets(Tail(t))
  ELSE IF t[1] = "_" THEN <<63>> \o Sextets(Tail(t))
  ELSE IF \E i \in 1..64 : Base64Chars[i] = t[1]
  THEN <<(CHOOSE i \in 1..64 : Base64Chars[i] = t[1]) - 1>> \o Sextets(Tail(t))
  ELSE Sextets(Tail(t))

RECURSIVE SextetsToBytes(_)
SextetsToBytes(x) ==
  IF Len(x) < 2 THEN <<>>
  ELSE IF Len(x) = 2 THEN <<x[1] * 4 + (x[2] \div 16)>>
  ELSE IF Len(x) = 3
  THEN <<x[1] * 4 + (x[2] \div 16), (x[2] % 16) * 16 + (x[3] \div 4)>>
  ELSE <<x[1] * 4 + (x[2] \div 16), (x[2] % 16) * 16 + (x[3] \div 4),
         (x[3] % 4) * 64 + x[4]>>
       \o SextetsToBytes(SubSeq(x, 5, Len(x)))

\* Buffer.from(payload, "base64")
Base64Decode(t) == SextetsToBytes(Sextets(t))

\* Buffer.prototype.subarray(start, end)
subarray(data, start, end) ==
  SubSeq(data, 1 + (IF start < Len(data) THEN start ELSE Len(data)),
         IF end < Len(data) THEN end ELSE Len(data))

RECURSIVE SumBytes(_)
SumBytes(b) == IF b = <<>> THEN 0 ELSE b[1] + SumBytes(Tail(b))

\* aes-256-gcm as far as the two functions depend on it: a keystream byte
\* for each position that key and iv determine, and a 16-byte tag that key,
\* iv and ciphertext determine and that differs when one byte of them differs
Keystream(key, iv, i) == (SumBytes(key) + 7 * SumBytes(iv) + 13 * i) % 256

GcmEncrypt(key, iv, plain) ==
  [i \in 1..Len(plain) |-> (plain[i] + Keystream(key, iv, i)) % 256]

GcmDecrypt(key, iv, cipher) ==
  [i \in 1..Len(cipher) |-> (cipher[i] + 256 - Keystream(key, iv, i)) % 256]

GcmTag(key, iv, cipher) ==
  [j \in 1..16 |->
     (SumBytes(key) + 3 * SumBytes(iv) + SumBytes(cipher) + Len(cipher) + 31 * j) % 256]

\* encrypt(text, key), with the iv that crypto.randomBytes(12) returned
encrypt(text, key, iv) ==
  LET encrypted == GcmEncrypt(key, iv, Utf8Encode(text))
      tag == GcmTag(key, iv, encrypted)
  IN Base64Encode(iv \o tag \o encrypted)

NoOutput == [state |-> "none", text |-> <<>>]
Thrown == [state |-> "error", text |-> <<>>]

\* decrypt reading the tag before the iv
decrypt_TagFirst(payload, key) ==
  LET data == Base64Decode(payload)
      tag == subarray(data, 0, 16)
      iv == subarray(data, 16, 28)
      text == subarray(data, 28, Len(data))
  IN IF tag # GcmTag(key, iv, text) THEN Thrown
     ELSE [state |-> "text", text |-> Utf8Decode(GcmDecrypt(key, iv, text))]

\* decrypt(payload, key): decipher.final() throws when the tag does not verify
decrypt(payload, key) ==
  LET data == Base64Decode(payload)
      iv == subarray(data, 0, 12)
      tag == subarray(data, 12, 28)
      text == subarray(data, 28, Len(data))
  IN IF tag # GcmTag(key, iv, text) THEN Thrown
     ELSE [state |-> "text", text |-> Utf8Decode(GcmDecrypt(key, iv, text))]

\* encrypt is called on the text with the key
Encrypt(iv) ==
  /\ resp.payload = <<>>
  /\ resp' = [resp EXCEPT !.payload = encrypt(req.text, req.key, iv), !.iv = iv]
  /\ UNCHANGED <<weightVars, bizVars, logVars, users, inflight, auxVars, req>>

\* byte positions of the decoded payload: in the iv, in the tag, in the ciphertext
TamperPositions == {1, 13, 29}

\* the payload with one decoded byte changed
TamperByte(i) ==
  /\ resp.payload # <<>>
  /\ resp.tampered = "no"
  /\ resp.out = NoOutput
  /\ LET data == Base64Decode(resp.payload)
     IN /\ i <= Len(data)
        /\ resp' = [resp EXCEPT
             !.payload = Base64Encode([data EXCEPT ![i] = (data[i] + 1) % 256]),
             !.tampered = "bytes"]
  /\ UNCHANGED <<weightVars, bizVars, logVars, users, inflight, auxVars, req>>

\* the payload with a line break appended
TamperEncoding ==
  /\ resp.payload # <<>>
  /\ resp.tampered = "no"
  /\ resp.out = NoOutput
  /\ resp' = [resp EXCEPT !.payload = Append(resp.payload, "\n"),
                          !.tampered = "encoding"]
  /\ UNCHANGED <<weightVars, bizVars, logVars, users, inflight, auxVars, req>>

\* decrypt is called on the payload with a key
Decrypt(key) ==
  /\ resp.payload # <<>>
  /\ resp.out = NoOutput
  /\ resp' = [resp EXCEPT !.out = decrypt(resp.payload, key), !.key = key]
  /\ UNCHANGED <<weightVars, bizVars, logVars, users, inflight, auxVars, req>>

\* a text and a key, nothing encrypted yet
InitCrypto ==
  /\ weightEntries = {}
  /\ weightEntrySeq = 0
  /\ activityLogs = {}
  /\ activityLogSeq = 0
  /\ googleTokens = {}
  /\ businessProfiles = {}
  /\ businessProfileSeq = 0
  /\ customerPreferences = {}
  /\ customerPrefSeq = 0
  /\ recommendations = {}
  /\ recommendationSeq = 0
  /\ users = {}
  /\ inflight = <<>>
  /\ AuxInit
  /\ req \in [text : Texts, key : Keys]
  /\ resp = [payload |-> <<>>, iv |-> <<>>, tampered |-> "no", key |-> <<>>,
             out |-> NoOutput]

NextCrypto ==
  \/ \E iv \in IVs : Encrypt(iv)
  \/ \E i \in TamperPositions : TamperByte(i)
  \/ TamperEncoding
  \/ \E key \in Keys : Decrypt(key)

SpecCrypto == InitCrypto /\ [][NextCrypto]_vars

====
